---- MODULE Spec2Model ----
(***************************************************************************)
(* Verification model of the energen-calculator RFP scripts.               *)
(*                                                                         *)
(* Independent programs are modelled, each with its own                   *)
(* specification over its own group of variables:                          *)
(*   SpecBatch    phase4-calculate-pricing.py, phase4-complete-remaining.py *)
(*                and phase4-finalize.py, run in that order on one         *)
(*                rfp-pricing-results.json file                            *)
(*   SpecClassify the get_kw_range classifiers                             *)
(*   SpecQuote    generate-anr6-quotes.py (clean_kw_value and main)         *)
(*   SpecSettings the settings load of rebuild-lookup-tables-with-settings *)
(*                and the getters of fetch_calculator_settings.py          *)
(*   SpecPhase5   phase5-fill-excel-template.py                            *)
(*   SpecLookup   the totals of rebuild-lookup-tables-with-settings.py and *)
(*                build_payload of lnbl-rfp-best-practice-example.py       *)
(*   SpecServiceD the Service D prices, cost and prevailing-wage totals    *)
(*   SpecOrder    the phase 4 totals of one generator list in two orders   *)
(*   SpecFetch    the two fetch_calculator_settings functions              *)
(*                                                                         *)
(* Money is held in integer cents.  The yearly totals, which the scripts   *)
(* compute as float products with 1.03, 1.06 and 1.09, are held in         *)
(* hundredths of a cent (YearScale units per cent) so that they are exact. *)
(***************************************************************************)
EXTENDS Integers, Sequences, FiniteSets, TLC

VARIABLES
    \* ---- phase 4 batch pipeline ----
    generators,       \* lbnl-generators.json: the generator list
    script,           \* the script that is running
    pc,               \* its position: "loop", "save", "exit"
    work,             \* the list the loop iterates (generators / failed_generators)
    i,                \* number of list items the loop has finished
    attempt,          \* loop variable of `for attempt in range(max_retries)`
    retry_delay,      \* current backoff delay in seconds
    results,          \* results / new_results
    success_count,
    total_value,      \* total_value / new_total_value, in cents
    existing_results, \* the file as loaded by phase4-complete-remaining
    file,             \* rfp-pricing-results.json
    requests,         \* requests.post calls made for the current generator:
                      \*   the status each returned (0: the call raised)
    sleeps,           \* time.sleep(retry_delay) calls made for the current generator
    last,             \* what was observed for the generator recorded last
    runs,             \* completed phase4-complete-remaining runs
    \* ---- kW classifier ----
    kw,               \* the kW argument, in tenths of a kW
    classifier,       \* which get_kw_range is called
    tier,             \* what the call returned
    \* ---- quote generation ----
    sheet,            \* the 'Output KW' column of the equipment list
    qpc,              \* position in main()
    kW_numeric,       \* df['kW_numeric'], in tenths of a kW
    billable,         \* generators: the sheet rows kept by the filter
    quote_payloads,
    saved_files,
    manifest,
    \* ---- settings ----
    settings,         \* the settings document: the set of fields it holds
    spc,              \* position of the settings programs
    outcome,          \* what the settings load or getter produced
    \* ---- phase 5: fill the Excel template ----
    pricing_data,     \* rfp-pricing-results.json as phase 5 loads it
    template,         \* column B of rows 13.. of the RFP template
    p5pc,             \* position in phase5-fill-excel-template.py
    pricing_lookup,   \* unit number -> annual price
    column_c,         \* column C of the same rows
    filled_count,
    not_found_list,
    workbook_saved,   \* the filled workbook has been written
    \* ---- lookup tables and payloads ----
    settings_file,    \* default-settings.json: rates, prices and tier tables
    wb,               \* the 'Service Lookup Tables' sheet the script last wrote
    wb_before,        \* the sheet that run replaced
    payload,          \* what build_payload last returned
    \* ---- Service D ----
    d_settings,       \* the serviceD keys the calculator settings hold
    d_payload,        \* generators' kW, labor rate and serviceDFluids
    service_d,        \* prices, per-generator costs and totals of Service D
    \* ---- processing order ----
    outcomes,         \* a generator list with the final response of each
    order,            \* another order of the same list
    run_given,        \* totals of the run that takes the list as given
    run_reordered,    \* totals of the run that takes it in the other order
    \* ---- fetch_calculator_settings ----
    server_answer,    \* what requests.get does: raises, or returns a response
    fetched,          \* what fetch_calculator_settings did for its caller
    \* ---- CPQ submission ----
    quote_files,      \* the quote-unit-<n>.json files, in the order of the glob
    cpq_script,       \* "submit" or "retry"
    cpq_pc,           \* position in that script
    failed_units,     \* the units retry-failed-quotes.py read from the results
    cpq_i,            \* passes of the loop so far
    cpq_unit_num,     \* unit_num of the running script
    cpq_results,      \* the results dictionary of the running script
    cpq_log,          \* per pass: the record written, the request, the sleep
    submission_file,  \* zoho-cpq-submission-results.json
    retry_file,       \* zoho-cpq-retry-results.json
    \* ---- per-unit pricing sheet ----
    pu_pc,            \* position in the two per-unit scripts
    pu_idx,           \* generators the loop has taken
    pu_results,       \* results of lnbl-per-unit-calculation.py
    csv_file,         \* per-unit-pricing.csv
    df,               \* the frame create-per-unit-excel.py builds
    total_annual      \* its grand total

batchVars == <<generators, script, pc, work, i, attempt, retry_delay, results,
               success_count, total_value, existing_results, file, requests,
               sleeps, last, runs>>
classifyVars == <<kw, classifier, tier>>
quoteVars == <<sheet, qpc, kW_numeric, billable, quote_payloads, saved_files, manifest>>
settingsVars == <<settings, spc, outcome>>
phase5Vars == <<pricing_data, template, p5pc, pricing_lookup, column_c,
                filled_count, not_found_list, workbook_saved>>
lookupVars == <<settings_file, wb, wb_before, payload>>
serviceDVars == <<d_settings, d_payload, service_d>>
orderVars == <<outcomes, order, run_given, run_reordered>>
fetchVars == <<server_answer, fetched>>
cpqVars == <<quote_files, cpq_script, cpq_pc, failed_units, cpq_i, cpq_unit_num,
             cpq_results, cpq_log, submission_file, retry_file>>
perUnitVars == <<pu_pc, pu_idx, pu_results, csv_file, df, total_annual>>
extVars == <<phase5Vars, lookupVars, serviceDVars, orderVars, fetchVars,
             cpqVars, perUnitVars>>
vars == <<batchVars, classifyVars, quoteVars, settingsVars, extVars>>

----------------------------------------------------------------------------
(* Bounds                                                                   *)

MaxGens == 2        \* longest generator list
MaxRuns == 1        \* phase4-complete-remaining runs
MaxKw == 1600       \* largest kW value classified
MaxRows == 2        \* rows of the equipment list
MaxMissing == 2     \* keys a settings document lacks

----------------------------------------------------------------------------
(* Phase 4: data                                                            *)

Absent == -1        \* a record without the key 'annualPrice'
NoError == ""       \* a record without the key 'error'

\* lbnl-generators.json entries (unit number and kW rating); a generator
\* list is any selection of at most MaxGens of them, in this order
GenPool == << [unitNumber |-> "50 CM 101", kwRating |-> 500],
              [unitNumber |-> "76 CM 186", kwRating |-> 8],
              [unitNumber |-> "77 CM 201", kwRating |-> 150] >>

RECURSIVE Selection(_, _)
\* the entries of pool whose index is in S, in pool order
Selection(pool, S) ==
    IF pool = <<>> THEN <<>>
    ELSE LET rest == Selection(Tail(pool), { k - 1 : k \in S \ {1} })
         IN IF 1 \in S THEN <<Head(pool)>> \o rest ELSE rest

GeneratorLists ==
    { Selection(GenPool, S) :
        S \in { T \in SUBSET (1..Len(GenPool)) : Cardinality(T) <= MaxGens } }

\* calc["total"] values the calculator may answer, in cents
Prices == { 100000, 250000 }

Statuses == { 200, 400, 429, 500 }

\* What one requests.post call can do: raise, or return a response.
\* A 200 response has a body that parses to a total ("ok"), or one whose
\* total parses while a breakdown field does not ("badbreakdown":
\* float(calc.get("laborTotal", 0)) raises after calc["total"] was read).
Responses ==
    { [kind |-> "raise", status |-> 0, body |-> e, total |-> 0] :
          e \in {"Timeout", "ConnectionError"} }
    \cup { [kind |-> "response", status |-> s, body |-> "none", total |-> 0] :
          s \in Statuses \ {200} }
    \cup { [kind |-> "response", status |-> 200, body |-> b, total |-> p] :
          b \in {"ok", "badbreakdown"}, p \in Prices }

max_retries(s) == IF s = "pricing" THEN 3 ELSE 5
initial_retry_delay(s) == IF s = "pricing" THEN 2 ELSE 3
timeout(s) == IF s = "pricing" THEN 15 ELSE 20

SuccessRecord(gen, annual_total) ==
    [unitNumber |-> gen.unitNumber, kwRating |-> gen.kwRating,
     annualPrice |-> annual_total, error |-> NoError, success |-> TRUE]

FailureRecord(gen, text) ==
    [unitNumber |-> gen.unitNumber, kwRating |-> gen.kwRating,
     annualPrice |-> Absent, error |-> text, success |-> FALSE]

\* str(e) of the exception the response makes the try block raise
ExceptionText(resp) ==
    IF resp.kind = "raise" THEN resp.body ELSE "ValueError"

\* the retry condition applied to every error status
ShouldRetryAnyError(status, att, s) == status >= 400 /\ att < max_retries(s) - 1

\* line 89 / 101: if response.status_code == 429 and attempt < max_retries - 1
ShouldRetry(status, att, s) == status = 429 /\ att < max_retries(s) - 1

\* a delay that is not doubled
NextDelaySame(d) == d

\* line 91 / 104: retry_delay *= 2
NextDelay(d) == d * 2

\* total_value assigned, not accumulated
TotalAfterAssigned(resp, total) ==
    IF resp.kind = "response" /\ resp.status = 200 /\ resp.body \in {"ok", "badbreakdown"}
    THEN resp.total
    ELSE total

\* total_value after the try block has run on the final response:
\* `total_value += annual_total` runs as soon as float(calc["total"]) succeeded
TotalAfter(resp, total) ==
    IF resp.kind = "response" /\ resp.status = 200 /\ resp.body \in {"ok", "badbreakdown"}
    THEN total + resp.total
    ELSE total

\* success_count incremented as soon as the total was read
CountAfterEarly(resp, count) ==
    IF resp.kind = "response" /\ resp.status = 200 /\ resp.body \in {"ok", "badbreakdown"}
    THEN count + 1
    ELSE count

\* success_count after the try block: incremented after results.append
CountAfter(resp, count) ==
    IF resp.kind = "response" /\ resp.status = 200 /\ resp.body = "ok"
    THEN count + 1
    ELSE count

\* an except clause that appends nothing
ResultsAfterNoExcept(resp, gen, res) ==
    IF resp.kind = "response" /\ resp.status = 200 /\ resp.body = "ok"
    THEN Append(res, SuccessRecord(gen, resp.total))
    ELSE IF resp.kind = "response" /\ resp.status # 200
    THEN Append(res, FailureRecord(gen, "HTTP " \o ToString(resp.status)))
    ELSE res

\* results after the try / except has run on the final response
ResultsAfter(resp, gen, res) ==
    IF resp.kind = "response" /\ resp.status = 200 /\ resp.body = "ok"
    THEN Append(res, SuccessRecord(gen, resp.total))
    ELSE IF resp.kind = "response" /\ resp.status # 200
    THEN Append(res, FailureRecord(gen, "HTTP " \o ToString(resp.status)))
    ELSE Append(res, FailureRecord(gen, ExceptionText(resp)))

StatusOf(resp) == IF resp.kind = "raise" THEN 0 ELSE resp.status

----------------------------------------------------------------------------
(* Phase 4: the summary written to rfp-pricing-results.json                 *)

YearScale == 100            \* yearly totals are in 1/YearScale cents
EscalationPercent == 3      \* escalation_rate = 0.03

\* year3_total = t * (1 + escalation_rate), year4_total = t * (1 + escalation_rate * 2),
\* year5_total = t * (1 + escalation_rate * 3); year1 and year2 are t itself
OptionYear(t, k) == t * (100 + EscalationPercent * k)

YearlyTotals(t) ==
    [year1 |-> t * YearScale, year2 |-> t * YearScale,
     optionYear3 |-> OptionYear(t, 1), optionYear4 |-> OptionYear(t, 2),
     optionYear5 |-> OptionYear(t, 3)]

\* five_year_total = (t * 2) + year3_total + year4_total + year5_total
FiveYearTotal(t) ==
    (t * 2) * YearScale + OptionYear(t, 1) + OptionYear(t, 2) + OptionYear(t, 3)

Summary(n, ok, t) ==
    [totalGenerators |-> n, successfulCalculations |-> ok,
     failedCalculations |-> n - ok, annualTotal |-> t,
     yearlyTotals |-> YearlyTotals(t), fiveYearTotal |-> FiveYearTotal(t)]

Output(n, ok, t, gens) ==
    [written |-> TRUE, summary |-> Summary(n, ok, t), generators |-> gens,
     allCalculationsSuccess |-> (ok = n)]

NoFile ==
    [written |-> FALSE, summary |-> Summary(0, 0, 0), generators |-> <<>>,
     allCalculationsSuccess |-> FALSE]

NoLast == [script |-> "none", unitNumber |-> "", index |-> 0, requests |-> <<>>,
           sleeps |-> <<>>, timeout |-> 0]

----------------------------------------------------------------------------
(* Phase 4: the request loop shared by phase4-calculate-pricing and         *)
(* phase4-complete-remaining                                                *)

\* one pass of `for attempt in range(max_retries)` that ends in `continue`
RetryStep(s) ==
    /\ script = s /\ pc = "loop" /\ i < Len(work)
    /\ \E resp \in Responses :
          /\ resp.kind = "response"
          /\ ShouldRetry(resp.status, attempt, s)
          /\ requests' = Append(requests, resp.status)
          /\ sleeps' = Append(sleeps, retry_delay)
          /\ retry_delay' = NextDelay(retry_delay)
          /\ attempt' = attempt + 1
    /\ UNCHANGED <<generators, script, pc, work, i, results, success_count,
                   total_value, existing_results, file, last, runs>>

\* the last pass of the attempt loop (a raise, or `break`), then the rest of
\* the try / except for this generator, then the next loop iteration begins
RecordStep(s) ==
    /\ script = s /\ pc = "loop" /\ i < Len(work)
    /\ \E resp \in Responses :
          /\ ~(resp.kind = "response" /\ ShouldRetry(resp.status, attempt, s))
          /\ total_value' = TotalAfter(resp, total_value)
          /\ results' = ResultsAfter(resp, work[i + 1], results)
          /\ success_count' = CountAfter(resp, success_count)
          /\ last' = [script |-> s, unitNumber |-> work[i + 1].unitNumber,
                      index |-> i + 1,
                      requests |-> Append(requests, StatusOf(resp)),
                      sleeps |-> sleeps, timeout |-> timeout(s)]
    /\ i' = i + 1
    /\ pc' = IF i + 1 = Len(work) THEN "save" ELSE "loop"
    /\ attempt' = 0
    /\ retry_delay' = initial_retry_delay(s)
    /\ requests' = <<>>
    /\ sleeps' = <<>>
    /\ UNCHANGED <<generators, script, work, existing_results, file, runs>>

\* the script has run to its end: the process and its variables are gone
ProcessExit ==
    /\ pc' = "exit"
    /\ work' = <<>>
    /\ i' = 0
    /\ attempt' = 0
    /\ retry_delay' = 0
    /\ results' = <<>>
    /\ success_count' = 0
    /\ total_value' = 0
    /\ existing_results' = NoFile
    /\ requests' = <<>>
    /\ sleeps' = <<>>
    /\ last' = NoLast

----------------------------------------------------------------------------
(* phase4-calculate-pricing.py                                              *)

PricingRetry == RetryStep("pricing")

PricingRecord == RecordStep("pricing")

\* lines 149-195: escalation, output, json.dump
PricingSave ==
    /\ script = "pricing" /\ pc = "save"
    /\ file' = Output(Len(generators), success_count, total_value, results)
    /\ ProcessExit
    /\ UNCHANGED <<generators, script, runs>>

----------------------------------------------------------------------------
(* phase4-complete-remaining.py                                             *)

\* every generator taken again, whatever its record
FailedGeneratorsAll(existing, all) == all

RECURSIVE FailedGenerators(_, _)
\* lines 31-37: all_generators[i] for every i whose existing record is not successful
FailedGenerators(existing, all) ==
    IF existing = <<>> THEN <<>>
    ELSE LET rest == FailedGenerators(Tail(existing), Tail(all))
         IN IF ~Head(existing).success THEN <<Head(all)>> \o rest ELSE rest

RECURSIVE Merge(_, _)
\* lines 166-177: keep successful records, take the next new result otherwise
Merge(existing, new) ==
    IF existing = <<>> THEN <<>>
    ELSE IF Head(existing).success
         THEN <<Head(existing)>> \o Merge(Tail(existing), new)
         ELSE <<Head(new)>> \o Merge(Tail(existing), Tail(new))

\* lines 18-67: load the file and the generator list, extract the failed ones
RemainingStart ==
    /\ script \in {"pricing", "remaining"} /\ pc = "exit"
    /\ runs < MaxRuns
    /\ script' = "remaining"
    /\ existing_results' = file
    /\ work' = FailedGenerators(file.generators, generators)
    /\ results' = <<>>
    /\ success_count' = 0
    /\ total_value' = 0
    /\ i' = 0
    /\ attempt' = 0
    /\ retry_delay' = initial_retry_delay("remaining")
    /\ requests' = <<>>
    /\ sleeps' = <<>>
    /\ pc' = IF FailedGenerators(file.generators, generators) = <<>>
             THEN "save" ELSE "loop"
    /\ UNCHANGED <<generators, file, last, runs>>

RemainingRetry == RetryStep("remaining")

RemainingRecord == RecordStep("remaining")

\* lines 166-236: merge, final totals, escalation, output, json.dump
RemainingSave ==
    /\ script = "remaining" /\ pc = "save"
    /\ file' = Output(Len(generators),
                      existing_results.summary.successfulCalculations + success_count,
                      existing_results.summary.annualTotal + total_value,
                      Merge(existing_results.generators, results))
    /\ ProcessExit
    /\ runs' = runs + 1
    /\ UNCHANGED <<generators, script>>

----------------------------------------------------------------------------
(* phase4-finalize.py                                                       *)

\* lines 21-42
eight_kw_result ==
    [unitNumber |-> "76 CM 186", kwRating |-> 8, annualPrice |-> 1158160,
     error |-> NoError, success |-> TRUE]

RECURSIVE ReplaceFirstFailed(_)
\* the record to replace found by its success flag, not by its unit number
ReplaceFirstFailed(gens) ==
    IF gens = <<>> THEN <<>>
    ELSE IF ~Head(gens).success
         THEN <<eight_kw_result>> \o Tail(gens)
         ELSE <<Head(gens)>> \o ReplaceFirstFailed(Tail(gens))

RECURSIVE ReplaceFirst(_)
\* lines 48-52: replace the first record of unit '76 CM 186', then break
ReplaceFirst(gens) ==
    IF gens = <<>> THEN <<>>
    ELSE IF Head(gens).unitNumber = "76 CM 186"
         THEN <<eight_kw_result>> \o Tail(gens)
         ELSE <<Head(gens)>> \o ReplaceFirst(Tail(gens))

RECURSIVE SumSuccessful(_)
\* line 58: sum(g.get('annualPrice', 0) for g in generators if g.get('success', False))
SumSuccessful(gens) ==
    IF gens = <<>> THEN 0
    ELSE (IF Head(gens).success
          THEN (IF Head(gens).annualPrice = Absent THEN 0 ELSE Head(gens).annualPrice)
          ELSE 0) + SumSuccessful(Tail(gens))

RECURSIVE CountSuccessful(_)
\* line 56: sum(1 for g in generators if g.get('success', False))
CountSuccessful(gens) ==
    IF gens = <<>> THEN 0
    ELSE (IF Head(gens).success THEN 1 ELSE 0) + CountSuccessful(Tail(gens))

\* the whole script: load, replace, recalculate totals, save
Finalize ==
    /\ script \in {"pricing", "remaining"} /\ pc = "exit"
    /\ script' = "finalize"
    /\ LET gens == ReplaceFirst(file.generators)
       IN file' = [written |-> TRUE,
                   summary |-> Summary(Len(gens), CountSuccessful(gens), SumSuccessful(gens)),
                   generators |-> gens,
                   allCalculationsSuccess |-> (CountSuccessful(gens) = Len(gens))]
    /\ UNCHANGED <<generators, pc, work, i, attempt, retry_delay, results,
                   success_count, total_value, existing_results, requests,
                   sleeps, last, runs>>

----------------------------------------------------------------------------
(* kW classifier: get_kw_range of generate-anr6-quotes.py and of            *)
(* create-per-unit-excel.py                                                 *)

KwScale == 10       \* kW values are held in tenths (round(hp * 0.746, 1))

\* generate-anr6-quotes.py with `<` for `<=` at the 30 kW boundary
get_kw_range_strict(k) ==
    IF k <= 14 * KwScale THEN "2-14"
    ELSE IF k < 30 * KwScale THEN "15-30"
    ELSE IF k <= 150 * KwScale THEN "35-150"
    ELSE IF k <= 250 * KwScale THEN "151-250"
    ELSE IF k <= 400 * KwScale THEN "251-400"
    ELSE IF k <= 500 * KwScale THEN "401-500"
    ELSE IF k <= 670 * KwScale THEN "501-670"
    ELSE IF k <= 1050 * KwScale THEN "671-1050"
    ELSE IF k <= 1500 * KwScale THEN "1051-1500"
    ELSE "1501+"

\* generate-anr6-quotes.py
get_kw_range(k) ==
    IF k <= 14 * KwScale THEN "2-14"
    ELSE IF k <= 30 * KwScale THEN "15-30"
    ELSE IF k <= 150 * KwScale THEN "35-150"
    ELSE IF k <= 250 * KwScale THEN "151-250"
    ELSE IF k <= 400 * KwScale THEN "251-400"
    ELSE IF k <= 500 * KwScale THEN "401-500"
    ELSE IF k <= 670 * KwScale THEN "501-670"
    ELSE IF k <= 1050 * KwScale THEN "671-1050"
    ELSE IF k <= 1500 * KwScale THEN "1051-1500"
    ELSE "1501+"

\* create-per-unit-excel.py
get_kw_range_per_unit(k) ==
    IF k <= 30 * KwScale THEN "15-30 kW"
    ELSE IF k <= 150 * KwScale THEN "35-150 kW"
    ELSE IF k <= 250 * KwScale THEN "151-250 kW"
    ELSE IF k <= 400 * KwScale THEN "251-400 kW"
    ELSE IF k <= 500 * KwScale THEN "401-500 kW"
    ELSE IF k <= 670 * KwScale THEN "501-670 kW"
    ELSE IF k <= 1050 * KwScale THEN "671-1050 kW"
    ELSE IF k <= 1500 * KwScale THEN "1051-1500 kW"
    ELSE IF k <= 2050 * KwScale THEN "1501-2050 kW"
    ELSE "2050+ kW"

\* verify-oil-calculations.py: the kW and the range label of each sample
test_generators ==
    { [kw |-> 20, range |-> "2-14 kW"],
      [kw |-> 150, range |-> "35-150 kW"],
      [kw |-> 250, range |-> "151-250 kW"],
      [kw |-> 300, range |-> "251-400 kW"],
      [kw |-> 500, range |-> "401-500 kW"],
      [kw |-> 550, range |-> "501-670 kW"],
      [kw |-> 1300, range |-> "671-1050 kW"],
      [kw |-> 2000, range |-> "1501-2050 kW"] }

\* a call of get_kw_range of generate-anr6-quotes.py; it has no raise statement
ClassifyAnr6 ==
    /\ classifier' = "anr6"
    /\ tier' = get_kw_range(kw)
    /\ UNCHANGED kw

\* a call of get_kw_range of create-per-unit-excel.py; it has no raise statement
ClassifyPerUnit ==
    /\ classifier' = "perunit"
    /\ tier' = get_kw_range_per_unit(kw)
    /\ UNCHANGED kw

----------------------------------------------------------------------------
(* generate-anr6-quotes.py: clean_kw_value and main                         *)

\* An 'Output KW' cell: its form, the number written in it, and whether the
\* text left after the code's stripping is a float literal.
\*   nan     empty cell                      number  a numeric cell
\*   HP, MW  text holding 'HP' / 'MW'        KW      text holding 'KW'
\*   text    any other text
\* For KW the text left by re.sub is empty when parses = FALSE and value = 0
\* ("TBD KW") and is not a float literal when parses = FALSE and value = 1
\* ("1.2.3 KW").
Cell(form, value, parses) == [form |-> form, value |-> value, parses |-> parses]

CellPool ==
    { Cell("nan", 0, FALSE),        \* empty
      Cell("number", 0, TRUE),      \* 0
      Cell("number", -5, TRUE),     \* -5
      Cell("number", 500, TRUE),    \* 500
      Cell("HP", 100, TRUE),        \* "100 HP"
      Cell("HP", 0, FALSE),         \* "N/A HP"
      Cell("MW", 2, TRUE),          \* "2 MW"
      Cell("KW", 20, TRUE),         \* "20 kW"
      Cell("KW", 0, FALSE),         \* "TBD KW"
      Cell("text", 0, FALSE) }      \* "N/A"

\* round(n / d, 0) for n, d > 0 (no cell of CellPool is an exact tie)
RoundDiv(n, d) == (2 * n + d) \div (2 * d)

Returned(v) == [raised |-> FALSE, value |-> v]
Raised == [raised |-> TRUE, value |-> 0]

\* clean_kw_value: the value returned, in tenths of a kW, or the ValueError
\* that float() raises outside the try of lines 42-45
clean_kw_value(val) ==
    IF val.form = "nan" THEN Returned(0)
    ELSE IF val.form = "HP"
    THEN (IF val.parses THEN Returned(RoundDiv(val.value * 746 * KwScale, 1000)) ELSE Raised)
    ELSE IF val.form = "MW"
    THEN (IF val.parses THEN Returned(val.value * 1000 * KwScale) ELSE Raised)
    ELSE IF val.form = "KW"
    THEN (IF val.parses THEN Returned(val.value * KwScale)
          ELSE IF val.value = 0 THEN Returned(0) ELSE Raised)
    ELSE IF val.parses THEN Returned(val.value * KwScale)
    ELSE Returned(0)

RECURSIVE BillableNonNegative(_, _)
\* the filter with >= in place of >
BillableNonNegative(cleaned, offset) ==
    IF cleaned = <<>> THEN <<>>
    ELSE LET rest == BillableNonNegative(Tail(cleaned), offset + 1)
         IN IF Head(cleaned) >= 0
            THEN <<[row |-> offset + 1, kW_numeric |-> Head(cleaned),
                    kw_range |-> get_kw_range(Head(cleaned))]>> \o rest
            ELSE rest

RECURSIVE Billable(_, _)
\* line 166: df[df['kW_numeric'] > 0], each kept row with its sheet position
Billable(cleaned, offset) ==
    IF cleaned = <<>> THEN <<>>
    ELSE LET rest == Billable(Tail(cleaned), offset + 1)
         IN IF Head(cleaned) > 0
            THEN <<[row |-> offset + 1, kW_numeric |-> Head(cleaned),
                    kw_range |-> get_kw_range(Head(cleaned))]>> \o rest
            ELSE rest

\* create_quote_payload(row, unit_number)
create_quote_payload(row, unit_number) ==
    [quoteNumber |-> unit_number, row |-> row.row, kw |-> row.kW_numeric,
     kwRange |-> row.kw_range]

\* lines 157-163: read the sheet, df['Output KW'].apply(clean_kw_value); a
\* ValueError leaves main and the script exits with status 1
MainClean ==
    /\ qpc = "start"
    /\ IF \E r \in 1..Len(sheet) : clean_kw_value(sheet[r]).raised
       THEN /\ qpc' = "error"
            /\ UNCHANGED kW_numeric
       ELSE /\ qpc' = "cleaned"
            /\ kW_numeric' = [r \in 1..Len(sheet) |-> clean_kw_value(sheet[r]).value]
    /\ UNCHANGED <<sheet, billable, quote_payloads, saved_files, manifest>>

\* lines 165-189: filter, map to kW ranges, build the payloads
MainGenerate ==
    /\ qpc = "cleaned"
    /\ LET gens == Billable(kW_numeric, 0)
       IN /\ billable' = gens
          /\ quote_payloads' =
                [idx \in 1..Len(gens) |-> create_quote_payload(gens[idx], idx)]
    /\ qpc' = "generated"
    /\ UNCHANGED <<sheet, kW_numeric, saved_files, manifest>>

\* lines 191-242: write quote-unit-<idx>.json files and manifest.json
MainSave ==
    /\ qpc = "generated"
    /\ saved_files' = [idx \in 1..Len(quote_payloads) |->
                          [quote_file |-> idx, payload |-> quote_payloads[idx]]]
    /\ manifest' = <<[total_generators |-> Len(billable),
                      generators |->
                          [idx \in 1..Len(billable) |->
                              [unit_number |-> idx, row |-> billable[idx].row,
                               kw |-> billable[idx].kW_numeric,
                               kw_range |-> billable[idx].kw_range,
                               quote_file |-> idx]]]>>
    /\ qpc' = "done"
    /\ UNCHANGED <<sheet, kW_numeric, billable, quote_payloads>>

----------------------------------------------------------------------------
(* Settings: rebuild-lookup-tables-with-settings.py (load) and the getters  *)
(* of fetch_calculator_settings.py                                          *)

\* the keys a settings document can hold
SettingsFields ==
    { "laborRate", "mobilizationRate", "oilPrice", "oilMarkup", "coolantPrice",
      "coolantMarkup", "partsMarkup", "mileageRate", "freightMarkup",
      "serviceA", "serviceB", "serviceC", "serviceD", "serviceE" }

\* the value a document that holds key f holds for it (money in cents,
\* multipliers in hundredths); serviceD stands for its oilAnalysisCost
DocValue(f) ==
    CASE f = "laborRate" -> 19100
      [] f = "mobilizationRate" -> 19100
      [] f = "oilPrice" -> 1800
      [] f = "oilMarkup" -> 140
      [] f = "coolantPrice" -> 2200
      [] f = "coolantMarkup" -> 140
      [] f = "partsMarkup" -> 120
      [] f = "mileageRate" -> 70
      [] f = "freightMarkup" -> 110
      [] OTHER -> 2000

\* the order in which rebuild-lookup-tables-with-settings.py subscripts settings
RebuildReads ==
    << "laborRate", "mobilizationRate", "oilPrice", "oilMarkup", "coolantPrice",
       "coolantMarkup", "partsMarkup", "serviceA", "serviceB", "serviceC",
       "serviceD", "serviceE" >>

RECURSIVE FirstMissing(_, _)
\* settings[key] raises KeyError(key) at the first key the document lacks
FirstMissing(reads, doc) ==
    IF reads = <<>> THEN "none"
    ELSE IF Head(reads) \notin doc THEN Head(reads)
    ELSE FirstMissing(Tail(reads), doc)

\* settings.get(key, default)
Get(doc, key, default) ==
    [key |-> key, value |-> IF key \in doc THEN DocValue(key) ELSE default]

\* rebuild-lookup-tables-with-settings.py, every settings[...] subscript
RebuildLoad ==
    /\ spc = "start"
    /\ outcome' = IF FirstMissing(RebuildReads, settings) = "none"
                  THEN [op |-> "rebuild", kind |-> "ok", field |-> "none", values |-> {}]
                  ELSE [op |-> "rebuild", kind |-> "KeyError",
                        field |-> FirstMissing(RebuildReads, settings), values |-> {}]
    /\ spc' = "done"
    /\ UNCHANGED settings

Got(op, vals) == [op |-> op, kind |-> "ok", field |-> "none", values |-> vals]

\* get_service_d_prices(settings)
GetServiceDPrices ==
    /\ spc = "start"
    /\ outcome' = Got("get_service_d_prices", { Get(settings, "serviceD", 1655) })
    /\ spc' = "done"
    /\ UNCHANGED settings

\* get_oil_pricing(settings)
GetOilPricing ==
    /\ spc = "start"
    /\ outcome' = Got("get_oil_pricing",
                      { Get(settings, "oilPrice", 1600), Get(settings, "oilMarkup", 150) })
    /\ spc' = "done"
    /\ UNCHANGED settings

\* get_coolant_pricing(settings)
GetCoolantPricing ==
    /\ spc = "start"
    /\ outcome' = Got("get_coolant_pricing",
                      { Get(settings, "coolantPrice", 1600),
                        Get(settings, "coolantMarkup", 150) })
    /\ spc' = "done"
    /\ UNCHANGED settings

\* get_labor_rates(settings)
GetLaborRates ==
    /\ spc = "start"
    /\ outcome' = Got("get_labor_rates",
                      { Get(settings, "laborRate", 18000),
                        Get(settings, "mobilizationRate", 18000),
                        Get(settings, "mileageRate", 67) })
    /\ spc' = "done"
    /\ UNCHANGED settings

\* get_markup_rates(settings)
GetMarkupRates ==
    /\ spc = "start"
    /\ outcome' = Got("get_markup_rates",
                      { Get(settings, "partsMarkup", 125),
                        Get(settings, "freightMarkup", 105) })
    /\ spc' = "done"
    /\ UNCHANGED settings

----------------------------------------------------------------------------
(* phase5-fill-excel-template.py                                            *)

MaxTemplateRows == 2    \* template rows read (the script reads rows 13 to 51)

\* the records phase 4 can leave in the file for one generator: a success
\* record, or a failure record with one of the error texts
RecordsFor(gen) ==
    { SuccessRecord(gen, p) : p \in Prices }
      \cup { FailureRecord(gen, t) :
                t \in {"HTTP 400", "HTTP 429", "HTTP 500", "Timeout",
                       "ConnectionError", "ValueError"} }
      \cup (IF gen.unitNumber = "76 CM 186" THEN {eight_kw_result} ELSE {})

\* the 'generators' lists of the files phase 4 can write
Phase4Files ==
    UNION { { f \in [1..Len(gens) -> UNION { RecordsFor(gens[k]) : k \in 1..Len(gens) }] :
                \A k \in 1..Len(gens) : f[k] \in RecordsFor(gens[k]) } :
            gens \in GeneratorLists }

NoUnit == "None"

\* what column B of a template row can hold: nothing, a unit as the file
\* spells it, a unit in another spelling, a unit the file never holds
TemplateCells == {NoUnit, "50 CM 101", " 76 cm 186 ", "77 CM 201", "99 XX 000"}

\* lines 29 and 59: str(unit_number).strip().upper()
strip_upper(unit_number) ==
    IF unit_number = " 76 cm 186 " THEN "76 CM 186" ELSE unit_number

RECURSIVE BuildLookup(_, _)
\* lines 27-30: pricing_lookup[unit_num] = gen['annualPrice'], a later record
\* of the same unit replacing an earlier one
BuildLookup(gens, lookup) ==
    IF gens = <<>> THEN lookup
    ELSE LET unit_num == strip_upper(Head(gens).unitNumber)
         IN BuildLookup(Tail(gens),
                { e \in lookup : e.unit # unit_num }
                  \cup {[unit |-> unit_num, price |-> Head(gens).annualPrice]})

InLookup(unit, lookup) == \E e \in lookup : e.unit = unit
PriceIn(unit, lookup) == (CHOOSE e \in lookup : e.unit = unit).price

\* lines 56-70, one row: the value written to column C, Absent when none is
FilledCell(unit_number, lookup) ==
    IF unit_number # NoUnit /\ InLookup(strip_upper(unit_number), lookup)
    THEN PriceIn(strip_upper(unit_number), lookup)
    ELSE Absent

RECURSIVE NotFound(_, _)
\* lines 67-69: not_found_list.append(unit_number), in row order
NotFound(rows, lookup) ==
    IF rows = <<>> THEN <<>>
    ELSE IF Head(rows) # NoUnit /\ ~InLookup(strip_upper(Head(rows)), lookup)
         THEN <<Head(rows)>> \o NotFound(Tail(rows), lookup)
         ELSE NotFound(Tail(rows), lookup)

\* lines 20-32: load the file and build the lookup; gen['annualPrice'] of a
\* record without that key (line 30) ends the script with a KeyError
Phase5Load ==
    /\ p5pc = "start"
    /\ IF \A k \in 1..Len(pricing_data) : pricing_data[k].annualPrice # Absent
       THEN /\ pricing_lookup' = BuildLookup(pricing_data, {})
            /\ p5pc' = "fill"
       ELSE /\ pricing_lookup' =
                  BuildLookup(SubSeq(pricing_data, 1,
                      (CHOOSE k \in 1..Len(pricing_data) :
                          /\ pricing_data[k].annualPrice = Absent
                          /\ \A j \in 1..(k - 1) :
                                pricing_data[j].annualPrice # Absent) - 1), {})
            /\ p5pc' = "KeyError"
    /\ UNCHANGED <<pricing_data, template, column_c, filled_count,
                   not_found_list, workbook_saved>>

\* lines 50-70: the whole fill loop
Phase5Fill ==
    /\ p5pc = "fill"
    /\ column_c' = [r \in 1..Len(template) |-> FilledCell(template[r], pricing_lookup)]
    /\ filled_count' =
          Cardinality({ r \in 1..Len(template) :
                          FilledCell(template[r], pricing_lookup) # Absent })
    /\ not_found_list' = NotFound(template, pricing_lookup)
    /\ p5pc' = "save"
    /\ UNCHANGED <<pricing_data, template, pricing_lookup, workbook_saved>>

\* lines 83-86: wb.save(output_path)
Phase5Save ==
    /\ p5pc = "save"
    /\ workbook_saved' = TRUE
    /\ p5pc' = "done"
    /\ UNCHANGED <<pricing_data, template, pricing_lookup, column_c,
                   filled_count, not_found_list>>

----------------------------------------------------------------------------
(* rebuild-lookup-tables-with-settings.py: the totals                       *)
(*                                                                          *)
(* Hours and gallons are held in tenths, rates, prices and costs in cents,  *)
(* markups in hundredths; the totals of the sheet are held in thousandths   *)
(* of a cent (LookupScale units per cent), so that every product is exact.  *)

MaxTiers == 2           \* kW tiers a service table holds

LookupScale == 1000

\* the kw_range keys of a service table: the first MaxTiers of the ten
Tiers ==
    { <<"2-14", "15-30", "35-150", "151-250", "251-400", "401-500",
        "501-670", "671-1050", "1051-1500", "1501+">>[k] : k \in 1..MaxTiers }

\* settings['laborRate'], in cents per hour
LaborRates == {18000, 21500, 31124}

\* rows a tier of settings['serviceA']['data'] can hold, and so on
ServiceARows ==
    << [labor |-> 80, mobilization |-> 20, parts |-> 15000],
       [labor |-> 10, mobilization |-> 20, parts |-> 5000],
       [labor |-> 25, mobilization |-> 10, parts |-> 0] >>

ServiceBRows ==
    << [labor |-> 30, mobilization |-> 10, filterCost |-> 4000, oilGallons |-> 15],
       [labor |-> 10, mobilization |-> 20, filterCost |-> 2500, oilGallons |-> 40],
       [labor |-> 60, mobilization |-> 15, filterCost |-> 12000, oilGallons |-> 120] >>

ServiceCRows ==
    << [labor |-> 30, mobilization |-> 10, coolantGallons |-> 40, hoseBeltCost |-> 15000],
       [labor |-> 10, mobilization |-> 20, coolantGallons |-> 25, hoseBeltCost |-> 0],
       [labor |-> 60, mobilization |-> 20, coolantGallons |-> 200, hoseBeltCost |-> 45000] >>

\* transformerRental is 0 in the tiers where no transformer applies
ServiceERows ==
    << [labor |-> 30, mobilization |-> 20, loadBankRental |-> 50000,
        transformerRental |-> 0, deliveryCost |-> 25000],
       [labor |-> 10, mobilization |-> 20, loadBankRental |-> 35000,
        transformerRental |-> 0, deliveryCost |-> 15000],
       [labor |-> 80, mobilization |-> 20, loadBankRental |-> 150000,
        transformerRental |-> 120000, deliveryCost |-> 50000] >>

\* lines 14-15: the documents json.load can return
SettingsDocuments ==
    { [laborRate |-> l, mobilizationRate |-> m,
       oilPrice |-> o.price, oilMarkup |-> o.markup,
       coolantPrice |-> c.price, coolantMarkup |-> c.markup,
       partsMarkup |-> pm,
       serviceA |-> [t \in Tiers |-> ServiceARows[pick[t]]],
       serviceB |-> [t \in Tiers |-> ServiceBRows[pick[t]]],
       serviceC |-> [t \in Tiers |-> ServiceCRows[pick[t]]],
       serviceE |-> [t \in Tiers |-> ServiceERows[pick[t]]]] :
      l \in LaborRates, m \in {18000, 20000},
      o \in { [price |-> 1600, markup |-> 150], [price |-> 1800, markup |-> 140] },
      c \in { [price |-> 1600, markup |-> 150], [price |-> 2200, markup |-> 130] },
      pm \in {120, 125}, pick \in [Tiers -> 1..3] }

\* lines 20-22 and 23-25
OIL_PRICE_no_markup(s) == s.oilPrice * 100
OIL_PRICE(s) == s.oilPrice * s.oilMarkup
COOLANT_PRICE(s) == s.coolantPrice * s.coolantMarkup

\* line 135
ServiceATotalLaborOnly(values, LABOR_RATE) ==
    values.labor * LABOR_RATE * (LookupScale \div 10)
      + values.parts * LookupScale
ServiceATotal(values, LABOR_RATE) ==
    (values.labor + values.mobilization) * LABOR_RATE * (LookupScale \div 10)
      + values.parts * LookupScale

\* line 238
ServiceBTotalMinusLabor(values, LABOR_RATE, oil_price) ==
    values.filterCost * LookupScale + values.oilGallons * oil_price
      - (values.labor + values.mobilization) * LABOR_RATE * (LookupScale \div 10)
ServiceBTotal(values, LABOR_RATE, oil_price) ==
    (values.labor + values.mobilization) * LABOR_RATE * (LookupScale \div 10)
      + values.filterCost * LookupScale + values.oilGallons * oil_price

\* line 341
ServiceCTotalNoHoseBelt(values, LABOR_RATE, coolant_price) ==
    (values.labor + values.mobilization) * LABOR_RATE * (LookupScale \div 10)
      + values.coolantGallons * coolant_price
ServiceCTotal(values, LABOR_RATE, coolant_price) ==
    (values.labor + values.mobilization) * LABOR_RATE * (LookupScale \div 10)
      + values.coolantGallons * coolant_price + values.hoseBeltCost * LookupScale

\* line 533
ServiceETotalNoTransformer(values, LABOR_RATE) ==
    (values.labor + values.mobilization) * LABOR_RATE * (LookupScale \div 10)
      + values.loadBankRental * LookupScale + values.deliveryCost * LookupScale
ServiceETotal(values, LABOR_RATE) ==
    (values.labor + values.mobilization) * LABOR_RATE * (LookupScale \div 10)
      + values.loadBankRental * LookupScale
      + values.transformerRental * LookupScale
      + values.deliveryCost * LookupScale

\* lines 17-559: the sheet the script writes for a settings document; the
\* pricing notes carry LABOR_RATE
BuildWorkbook(s) ==
    [built |-> TRUE,
     laborRate |-> s.laborRate,
     A |-> [t \in Tiers |-> ServiceATotal(s.serviceA[t], s.laborRate)],
     B |-> [t \in Tiers |-> ServiceBTotal(s.serviceB[t], s.laborRate, OIL_PRICE(s))],
     C |-> [t \in Tiers |-> ServiceCTotal(s.serviceC[t], s.laborRate, COOLANT_PRICE(s))],
     E |-> [t \in Tiers |-> ServiceETotal(s.serviceE[t], s.laborRate)]]

NoWorkbook ==
    [built |-> FALSE, laborRate |-> 0,
     A |-> [t \in Tiers |-> 0], B |-> [t \in Tiers |-> 0],
     C |-> [t \in Tiers |-> 0], E |-> [t \in Tiers |-> 0]]

NoDocument == [laborRate |-> 0]

\* one run of the script: the sheet is deleted and written again
RebuildLookupTables ==
    /\ settings_file \in SettingsDocuments
    /\ wb_before' = wb
    /\ wb' = BuildWorkbook(settings_file)
    /\ UNCHANGED <<settings_file, payload>>

\* between two runs the labor rate of the settings file is edited
EditLaborRate ==
    /\ settings_file \in SettingsDocuments
    /\ \E r \in LaborRates \ {settings_file.laborRate} : settings_file' = [settings_file EXCEPT !.laborRate = r]
    /\ UNCHANGED <<wb, wb_before, payload>>

----------------------------------------------------------------------------
(* lnbl-rfp-best-practice-example.py: build_payload                         *)

NoOverride == Absent

\* calc_settings as fetched: the keys of the settings file, or none of them
FetchedSettings(s) ==
    [held |-> TRUE, laborRate |-> s.laborRate, mobilizationRate |-> s.mobilizationRate,
     oilPrice |-> s.oilPrice, oilMarkup |-> s.oilMarkup]

EmptySettings ==
    [held |-> FALSE, laborRate |-> 0, mobilizationRate |-> 0,
     oilPrice |-> 0, oilMarkup |-> 0]

\* lines 108-149, with get_oil_pricing and get_labor_rates of
\* fetch_calculator_settings.py (settings.get(key, default)); in
\* `labor_rate_override if labor_rate_override else ...` None and 0 are false
build_payload_own_mobilization(calc_settings, labor_rate_override) ==
    LET labor_rate ==
          IF labor_rate_override # NoOverride /\ labor_rate_override # 0
          THEN labor_rate_override
          ELSE IF calc_settings.held THEN calc_settings.laborRate ELSE 18000
    IN [laborRate |-> labor_rate,
        mobilizationRate |->
            IF calc_settings.held THEN calc_settings.mobilizationRate ELSE 18000,
        oilPrice |-> IF calc_settings.held THEN calc_settings.oilPrice ELSE 1600,
        oilMarkup |-> IF calc_settings.held THEN calc_settings.oilMarkup ELSE 150,
        override |-> labor_rate_override, built |-> TRUE]
build_payload(calc_settings, labor_rate_override) ==
    LET labor_rate ==
          IF labor_rate_override # NoOverride /\ labor_rate_override # 0
          THEN labor_rate_override
          ELSE IF calc_settings.held THEN calc_settings.laborRate ELSE 18000
    IN [laborRate |-> labor_rate,
        mobilizationRate |-> labor_rate,
        oilPrice |-> IF calc_settings.held THEN calc_settings.oilPrice ELSE 1600,
        oilMarkup |-> IF calc_settings.held THEN calc_settings.oilMarkup ELSE 150,
        override |-> labor_rate_override, built |-> TRUE]

NoPayload ==
    [laborRate |-> 0, mobilizationRate |-> 0, oilPrice |-> 0, oilMarkup |-> 0,
     override |-> NoOverride, built |-> FALSE]

BuildPayload ==
    /\ settings_file \in SettingsDocuments
    /\ \E calc_settings \in {FetchedSettings(settings_file), EmptySettings},
          labor_rate_override \in {NoOverride, 0, 33650} :
          payload' = build_payload(calc_settings, labor_rate_override)
    /\ UNCHANGED <<settings_file, wb, wb_before>>

----------------------------------------------------------------------------
(* Service D: laboratory analysis                                           *)
(*                                                                          *)
(* The scripts send the generators and the selected fluids to the           *)
(* calculator and read the Service D cost from its answer; the calculator   *)
(* itself is not one of the scripts, so its Service D cost is written from  *)
(* the specification (ServiceDCost).                                        *)

MaxUnits == 2            \* generators of one request

FluidNames == {"oil", "coolant", "fuel"}

\* the fee the settings hold for a fluid, where they hold one, in cents
HeldFee(fluid) ==
    CASE fluid = "oil" -> 1800
      [] fluid = "coolant" -> 1700
      [] fluid = "fuel" -> 6500

\* fetch_calculator_settings.py lines 66-71: the defaults of service_d.get
DefaultFee(fluid) ==
    CASE fluid = "oil" -> 1655
      [] fluid = "coolant" -> 1655
      [] fluid = "fuel" -> 6000

\* get_service_d_prices
get_service_d_prices(held) ==
    [fluid \in FluidNames |->
        IF fluid \in held THEN HeldFee(fluid) ELSE DefaultFee(fluid)]

\* the calculator's Service D cost of one generator: the fees of the
\* selected fluids; the kW rating and the labor rate are not used
ServiceDCost(kw_rating, labor_rate, prices, fluids) ==
    (IF "oil" \in fluids THEN prices["oil"] ELSE 0)
      + (IF "fuel" \in fluids THEN prices["fuel"] ELSE 0)
      + (IF "coolant" \in fluids THEN prices["coolant"] ELSE 0)

RECURSIVE SumSeq(_)
\* lbnl-rfp-exact-requirements.py line 144: sum(c['service_d'] for c in calculations)
SumSeq(q) == IF q = <<>> THEN 0 ELSE Head(q) + SumSeq(Tail(q))

\* lbnl-rfp-exact-requirements.py lines 157-176: A, B and E are multiplied
\* by RATE_MULTIPLIER = (156.24 + 155.00) / 180.00, D is not
total_d_times_multiplier(total_d) == (total_d * (15624 + 15500)) \div 18000
total_d_prevailing(total_d) == total_d

NoServiceDPayload == [kws |-> <<>>, laborRate |-> 0, serviceDFluids |-> {}]

NoServiceD ==
    [pc |-> "idle", prices |-> [fluid \in FluidNames |-> 0], costs |-> <<>>,
     total_d |-> 0, per_unit |-> 0, total_d_prevailing |-> 0]

\* the settings are fetched and the Service D prices read from them
ReadServiceDPrices ==
    /\ service_d.pc = "start"
    /\ service_d' = [service_d EXCEPT !.pc = "prices",
                                      !.prices = get_service_d_prices(d_settings)]
    /\ UNCHANGED <<d_settings, d_payload>>

\* the calculator answers: one Service D cost per generator; the script
\* sums them (lbnl-rfp-exact-requirements.py lines 113-144) and divides by
\* the number of generators (lnbl-rfp-calculation-corrected.py lines 79-82)
CalculateServiceD ==
    /\ service_d.pc = "prices"
    /\ LET costs == [k \in 1..Len(d_payload.kws) |->
                        ServiceDCost(d_payload.kws[k], d_payload.laborRate,
                                     service_d.prices, d_payload.serviceDFluids)]
       IN service_d' = [service_d EXCEPT
                           !.pc = "calculated",
                           !.costs = costs,
                           !.total_d = SumSeq(costs),
                           !.per_unit = SumSeq(costs) \div Len(d_payload.kws)]
    /\ UNCHANGED <<d_settings, d_payload>>

\* lbnl-rfp-exact-requirements.py lines 153-176
PrevailingWageAdjustment ==
    /\ service_d.pc = "calculated"
    /\ service_d' = [service_d EXCEPT
                        !.pc = "adjusted",
                        !.total_d_prevailing = total_d_prevailing(service_d.total_d)]
    /\ UNCHANGED <<d_settings, d_payload>>

----------------------------------------------------------------------------
(* Phase 4 on one generator list taken in two orders                        *)

RECURSIVE LoopTotal(_, _)
\* phase4-calculate-pricing.py lines 53-118: total_value after the loop has
\* run over items, each generator with its final response
LoopTotal(items, total) ==
    IF items = <<>> THEN total
    ELSE LoopTotal(Tail(items), TotalAfter(Head(items).resp, total))

RECURSIVE LoopResults(_, _)
\* the same loop: results
LoopResults(items, res) ==
    IF items = <<>> THEN res
    ELSE LoopResults(Tail(items), ResultsAfter(Head(items).resp, Head(items).gen, res))

\* phase4-finalize.py lines 44-58 on the file the loop leaves: annual_total
FinalTotal(items) == SumSuccessful(ReplaceFirst(LoopResults(items, <<>>)))

\* the orders a list of n generators can be processed in
Orders(n) ==
    { f \in [1..n -> 1..n] : \A a, b \in 1..n : f[a] = f[b] => a = b }

RunTotals(items) ==
    [done |-> TRUE, total_value |-> LoopTotal(items, 0),
     annual_total |-> FinalTotal(items)]

NoRun == [done |-> FALSE, total_value |-> 0, annual_total |-> 0]

\* phase 4 and the finalization run on the list as given
RunGiven ==
    /\ order # <<>> /\ ~run_given.done
    /\ run_given' = RunTotals(outcomes)
    /\ UNCHANGED <<outcomes, order, run_reordered>>

\* the same on the list in the other order
RunReordered ==
    /\ order # <<>> /\ ~run_reordered.done
    /\ run_reordered' = RunTotals([k \in 1..Len(outcomes) |-> outcomes[order[k]]])
    /\ UNCHANGED <<outcomes, order, run_given>>

----------------------------------------------------------------------------
(* fetch_calculator_settings: test-helpers/fetch_calculator_settings.py     *)
(* and rfp-calculator-api-proof-of-concept.py                               *)

\* what one requests.get call can do: raise, or return a response whose
\* body is a JSON document or is not JSON (response.json() then raises)
ServerAnswers ==
    LET statuses == {200, 404, 429, 500, 503}
        documents == { SettingsFields \ M :
                         M \in { T \in SUBSET SettingsFields :
                                   Cardinality(T) <= MaxMissing } }
    IN { [kind |-> "raise", exception |-> e, status |-> 0, json |-> FALSE, body |-> {}] :
            e \in {"ConnectionError", "Timeout", "TooManyRedirects"} }
       \cup { [kind |-> "response", exception |-> "none", status |-> st,
               json |-> FALSE, body |-> {}] : st \in statuses }
       \cup { [kind |-> "response", exception |-> "none", status |-> st,
               json |-> TRUE, body |-> b] : st \in statuses, b \in documents }

NoAnswer == [kind |-> "none", exception |-> "none", status |-> 0, json |-> FALSE, body |-> {}]

NotFetched == [impl |-> "none", kind |-> "none", exception |-> "none", settings |-> {}]

\* `return None` of the function impl
ReturnedNone(impl) ==
    [impl |-> impl, kind |-> "None", exception |-> "none", settings |-> {}]

\* the exception the try block raises on the answer, "none" when it returns
RaisedInTry(answer) ==
    IF answer.kind = "raise" THEN answer.exception
    ELSE IF answer.status = 200 /\ ~answer.json THEN "JSONDecodeError"
    ELSE "none"

\* what the try block returns when it raises nothing: lines 15-21 / 30-41
TryReturns(impl, answer) ==
    IF answer.status = 200
    THEN [impl |-> impl, kind |-> "settings", exception |-> "none",
          settings |-> answer.body]
    ELSE ReturnedNone(impl)

\* test-helpers/fetch_calculator_settings.py lines 21-54: except
\* ConnectionError, except Timeout, except Exception, each returning None
fetch_calculator_settings(answer) ==
    IF RaisedInTry(answer) = "none" THEN TryReturns("test-helpers", answer)
    ELSE ReturnedNone("test-helpers")

\* rfp-calculator-api-proof-of-concept.py lines 13-25: except ConnectionError only
poc_fetch_calculator_settings(answer) ==
    IF RaisedInTry(answer) = "none" THEN TryReturns("proof-of-concept", answer)
    ELSE IF RaisedInTry(answer) = "ConnectionError" THEN ReturnedNone("proof-of-concept")
    ELSE [impl |-> "proof-of-concept", kind |-> "raised",
          exception |-> RaisedInTry(answer), settings |-> {}]

FetchTestHelper ==
    /\ server_answer # NoAnswer /\ fetched = NotFetched
    /\ fetched' = fetch_calculator_settings(server_answer)
    /\ UNCHANGED server_answer

FetchProofOfConcept ==
    /\ server_answer # NoAnswer /\ fetched = NotFetched
    /\ fetched' = poc_fetch_calculator_settings(server_answer)
    /\ UNCHANGED server_answer

----------------------------------------------------------------------------
(* Submission of the quote files to the CPQ endpoint: submit-to-zoho-cpq.py *)
(* and retry-failed-quotes.py                                               *)

MaxQuotes == 2           \* quote files of one submission

\* unit_num before the first assignment of the submission loop reaches it
Unbound == "unbound"

\* the unit number in the name of the k-th quote file
QuoteFileUnit(k) == ToString(k)

\* what requests.post does: raises, or returns a response whose body parses
\* as JSON or does not
CpqResponses ==
    { [raises |-> TRUE, status |-> 0, json |-> FALSE],
      [raises |-> FALSE, status |-> 200, json |-> TRUE],
      [raises |-> FALSE, status |-> 200, json |-> FALSE],
      [raises |-> FALSE, status |-> 500, json |-> FALSE] }

\* seconds slept after a submission when another file follows
rate_limit_delay(s) == IF s = "submit" THEN 1 ELSE 5

\* One pass of the loop body with its try and except. The submission script
\* assigns unit_num after it has read the file, the retry script has it as
\* the loop variable; the sleep is the last statement of the try block.
CpqIteration(s, state, unit_of_file, before, resp, more) ==
    LET at_read == IF s = "retry" THEN unit_of_file ELSE before
        delay == IF more THEN rate_limit_delay(s) ELSE 0
        Done(u, l, e, p, d) ==
            [raised |-> FALSE, unit_num |-> u, list |-> l, unit |-> u,
             error |-> e, posted |-> p, slept |-> d]
    IN  IF state = "unreadable"
        THEN IF at_read = Unbound
             THEN [raised |-> TRUE, unit_num |-> Unbound, list |-> "none",
                   unit |-> Unbound, error |-> "NameError", posted |-> FALSE,
                   slept |-> 0]
             ELSE Done(at_read, "failed", "unreadable", FALSE, 0)
        ELSE IF state = "nogenerators"
        THEN Done(unit_of_file, "failed", "KeyError", FALSE, 0)
        ELSE IF resp.raises
        THEN Done(unit_of_file, "failed", "Timeout", TRUE, 0)
        ELSE IF resp.status = 200
        THEN IF resp.json
             THEN Done(unit_of_file, "successful", "", TRUE, delay)
             ELSE Done(unit_of_file, "failed", "JSONDecodeError", TRUE, 0)
        ELSE Done(unit_of_file, "failed", "HTTP 500", TRUE, delay)

NoCpqFile == [written |-> FALSE, successful |-> <<>>, failed |-> <<>>, total |-> 0]

\* the results after the record of one pass is appended
CpqAppend(res, it) ==
    IF it.list = "successful"
    THEN [res EXCEPT !.successful = Append(@, [unit |-> it.unit])]
    ELSE [res EXCEPT !.failed = Append(@, [unit |-> it.unit, error |-> it.error])]

\* the history of the run after one pass
CpqLogged(log, it) ==
    Append(log, [unit |-> it.unit, list |-> it.list, posted |-> it.posted,
                 slept |-> it.slept])

\* one pass of the submission loop over the next quote file
SubmitStep ==
    /\ cpq_script = "submit" /\ cpq_pc = "loop" /\ cpq_i < Len(quote_files)
    /\ \E resp \in CpqResponses :
         LET k == cpq_i + 1
             it == CpqIteration("submit", quote_files[k], QuoteFileUnit(k),
                                cpq_unit_num, resp, k < Len(quote_files))
         IN  IF it.raised
             THEN /\ cpq_pc' = "NameError"
                  /\ UNCHANGED <<cpq_i, cpq_unit_num, cpq_results, cpq_log>>
             ELSE /\ cpq_pc' = IF k = Len(quote_files) THEN "save" ELSE "loop"
                  /\ cpq_i' = k
                  /\ cpq_unit_num' = it.unit_num
                  /\ cpq_results' = CpqAppend(cpq_results, it)
                  /\ cpq_log' = CpqLogged(cpq_log, it)
    /\ UNCHANGED <<quote_files, cpq_script, failed_units, submission_file, retry_file>>

\* the total is set and zoho-cpq-submission-results.json is written
SubmitSave ==
    /\ cpq_script = "submit" /\ cpq_pc = "save"
    /\ cpq_results' = [cpq_results EXCEPT !.total = Len(quote_files)]
    /\ submission_file' = [written |-> TRUE,
                           successful |-> cpq_results.successful,
                           failed |-> cpq_results.failed,
                           total |-> Len(quote_files)]
    /\ cpq_pc' = "exit"
    /\ UNCHANGED <<quote_files, cpq_script, failed_units, cpq_i, cpq_unit_num, cpq_log, retry_file>>

\* retry-failed-quotes.py loads the previous results and lists the failed units
RetryStart ==
    /\ cpq_script = "submit" /\ cpq_pc = "exit" /\ submission_file.written
    /\ cpq_script' = "retry"
    /\ failed_units' = [k \in 1..Len(submission_file.failed) |->
                          submission_file.failed[k].unit]
    /\ cpq_results' = [successful |-> <<>>, failed |-> <<>>,
                       total |-> Len(submission_file.failed)]
    /\ cpq_i' = 0
    /\ cpq_unit_num' = Unbound
    /\ cpq_log' = <<>>
    /\ cpq_pc' = IF Len(submission_file.failed) = 0 THEN "save" ELSE "loop"
    /\ UNCHANGED <<quote_files, submission_file, retry_file>>

\* one pass of the retry loop over the next failed unit
RetryFailedStep ==
    /\ cpq_script = "retry" /\ cpq_pc = "loop" /\ cpq_i < Len(failed_units)
    /\ \E resp \in CpqResponses :
         LET k == cpq_i + 1
             f == CHOOSE n \in 1..Len(quote_files) :
                      QuoteFileUnit(n) = failed_units[k]
             it == CpqIteration("retry", quote_files[f], failed_units[k],
                                cpq_unit_num, resp, k < Len(failed_units))
         IN  /\ cpq_pc' = IF k = Len(failed_units) THEN "save" ELSE "loop"
             /\ cpq_i' = k
             /\ cpq_unit_num' = it.unit_num
             /\ cpq_results' = CpqAppend(cpq_results, it)
             /\ cpq_log' = CpqLogged(cpq_log, it)
    /\ UNCHANGED <<quote_files, cpq_script, failed_units, submission_file, retry_file>>

\* zoho-cpq-retry-results.json is written
RetrySave ==
    /\ cpq_script = "retry" /\ cpq_pc = "save"
    /\ retry_file' = [written |-> TRUE,
                      successful |-> cpq_results.successful,
                      failed |-> cpq_results.failed,
                      total |-> cpq_results.total]
    /\ cpq_pc' = "exit"
    /\ UNCHANGED <<quote_files, cpq_script, failed_units, cpq_i, cpq_unit_num,
                   cpq_results, cpq_log, submission_file>>

----------------------------------------------------------------------------
(* The per-unit pricing sheet: lnbl-per-unit-calculation.py writes          *)
(* per-unit-pricing.csv and create-per-unit-excel.py builds the sheet       *)

MaxPerUnit == 4          \* generators of generators_data taken by the loop

\* the head of the generator list of lnbl-per-unit-calculation.py, which is
\* in the order of its asset IDs
generators_data ==
    << [assetId |-> "02 EG 068", kwRating |-> 300],
       [assetId |-> "30 EG 114", kwRating |-> 350],
       [assetId |-> "33U EG 113", kwRating |-> 350],
       [assetId |-> "37 EG 111", kwRating |-> 150],
       [assetId |-> "37 EG 120", kwRating |-> 300] >>

\* the rows create-per-unit-excel.py adds, amounts in cents
missing_gens ==
    << [assetId |-> "02 EG 068", kwRating |-> 300, totalAnnual |-> 1241882],
       [assetId |-> "30 EG 114", kwRating |-> 350, totalAnnual |-> 1241882],
       [assetId |-> "33U EG 113", kwRating |-> 350, totalAnnual |-> 1241882] >>

\* what the calculator answers for one generator: an exception of
\* requests.post, a status other than 200, or a subtotal in cents
PerUnitResponses ==
    { [raises |-> TRUE, status |-> 0, subtotal |-> 0],
      [raises |-> FALSE, status |-> 500, subtotal |-> 0],
      [raises |-> FALSE, status |-> 200, subtotal |-> 1241882],
      [raises |-> FALSE, status |-> 200, subtotal |-> 873050] }

NoCsv == [written |-> FALSE, rows |-> <<>>]

RECURSIVE sort_values(_, _, _)
\* df.sort_values('assetId'): the rows in the order of their asset IDs, from
\* the r-th asset ID on; rows of one asset ID come in either order
sort_values(frame, swapped, r) ==
    IF r > Len(generators_data) THEN <<>>
    ELSE LET same == SelectSeq(frame,
                        LAMBDA row : row.assetId = generators_data[r].assetId)
             group == IF r \in swapped /\ Len(same) = 2
                      THEN <<same[2], same[1]>> ELSE same
         IN  group \o sort_values(frame, swapped, r + 1)

\* one pass of the calculation loop and its sleep
PerUnitStep ==
    /\ pu_pc = "loop"
    /\ pu_idx < MaxPerUnit /\ pu_idx < Len(generators_data)
    /\ \E response \in PerUnitResponses :
         LET gen == generators_data[pu_idx + 1]
         IN  IF response.raises
             THEN pu_pc' = "raised" /\ UNCHANGED <<pu_idx, pu_results>>
             ELSE /\ pu_idx' = pu_idx + 1
                  /\ pu_results' =
                       IF response.status = 200
                       THEN Append(pu_results,
                                   [assetId |-> gen.assetId,
                                    kwRating |-> gen.kwRating,
                                    totalAnnual |-> response.subtotal])
                       ELSE pu_results
                  /\ UNCHANGED pu_pc
    /\ UNCHANGED <<csv_file, df, total_annual>>

\* after the loop: the results are written to per-unit-pricing.csv
PerUnitSave ==
    /\ pu_pc = "loop"
    /\ ~(pu_idx < MaxPerUnit /\ pu_idx < Len(generators_data))
    /\ csv_file' = [written |-> TRUE, rows |-> pu_results]
    /\ pu_pc' = "saved"
    /\ UNCHANGED <<pu_idx, pu_results, df, total_annual>>

\* create-per-unit-excel.py: read the CSV, put the three rows in front,
\* sort by asset ID and total
CreateExcel ==
    /\ pu_pc = "saved" /\ csv_file.written
    /\ \E swapped \in SUBSET (1..Len(missing_gens)) :
         LET sorted == sort_values(missing_gens \o csv_file.rows, swapped, 1)
         IN  /\ df' = sorted
             /\ total_annual' =
                  SumSeq([k \in 1..Len(sorted) |-> sorted[k].totalAnnual])
    /\ pu_pc' = "excel"
    /\ UNCHANGED <<pu_idx, pu_results, csv_file>>

----------------------------------------------------------------------------
(* Initial values of each group                                             *)

BatchStart(gens) ==
    /\ generators = gens
    /\ script = "pricing"
    /\ pc = IF gens = <<>> THEN "save" ELSE "loop"
    /\ work = gens
    /\ i = 0
    /\ attempt = 0
    /\ retry_delay = initial_retry_delay("pricing")
    /\ results = <<>>
    /\ success_count = 0
    /\ total_value = 0
    /\ existing_results = NoFile
    /\ file = NoFile
    /\ requests = <<>>
    /\ sleeps = <<>>
    /\ last = NoLast
    /\ runs = 0

BatchIdle ==
    /\ generators = <<>> /\ script = "none" /\ pc = "exit" /\ work = <<>>
    /\ i = 0 /\ attempt = 0 /\ retry_delay = 0 /\ results = <<>>
    /\ success_count = 0 /\ total_value = 0 /\ existing_results = NoFile
    /\ file = NoFile /\ requests = <<>> /\ sleeps = <<>> /\ last = NoLast
    /\ runs = 0

ClassifyIdle == kw = 0 /\ classifier = "none" /\ tier = "none"

QuoteIdle ==
    /\ sheet = <<>> /\ qpc = "idle" /\ kW_numeric = <<>> /\ billable = <<>>
    /\ quote_payloads = <<>> /\ saved_files = <<>> /\ manifest = <<>>

NoOutcome == [op |-> "none", kind |-> "none", field |-> "none", values |-> {}]

SettingsIdle == settings = {} /\ spc = "idle" /\ outcome = NoOutcome

Phase5Idle ==
    /\ pricing_data = <<>> /\ template = <<>> /\ p5pc = "idle"
    /\ pricing_lookup = {} /\ column_c = <<>> /\ filled_count = 0
    /\ not_found_list = <<>> /\ workbook_saved = FALSE

LookupIdle ==
    /\ settings_file = NoDocument /\ wb = NoWorkbook /\ wb_before = NoWorkbook
    /\ payload = NoPayload

ServiceDIdle ==
    d_settings = {} /\ d_payload = NoServiceDPayload /\ service_d = NoServiceD

OrderIdle ==
    outcomes = <<>> /\ order = <<>> /\ run_given = NoRun /\ run_reordered = NoRun

FetchIdle == server_answer = NoAnswer /\ fetched = NotFetched

CpqIdle ==
    /\ quote_files = <<>> /\ cpq_script = "none" /\ cpq_pc = "none"
    /\ failed_units = <<>> /\ cpq_i = 0 /\ cpq_unit_num = Unbound
    /\ cpq_results = [successful |-> <<>>, failed |-> <<>>, total |-> 0]
    /\ cpq_log = <<>> /\ submission_file = NoCpqFile /\ retry_file = NoCpqFile

PerUnitIdle ==
    /\ pu_pc = "none" /\ pu_idx = 0 /\ pu_results = <<>> /\ csv_file = NoCsv /\ df = <<>>
    /\ total_annual = 0

ExtIdle ==
    /\ Phase5Idle /\ LookupIdle /\ ServiceDIdle /\ OrderIdle /\ FetchIdle
    /\ CpqIdle /\ PerUnitIdle

----------------------------------------------------------------------------
(* Specification of the phase 4 pipeline                                    *)

InitBatch ==
    /\ \E gens \in GeneratorLists : BatchStart(gens)
    /\ ClassifyIdle /\ QuoteIdle /\ SettingsIdle /\ ExtIdle

NextBatch ==
    \/ (PricingRetry /\ UNCHANGED <<classifyVars, quoteVars, settingsVars, extVars>>)
    \/ (PricingRecord /\ UNCHANGED <<classifyVars, quoteVars, settingsVars, extVars>>)
    \/ (PricingSave /\ UNCHANGED <<classifyVars, quoteVars, settingsVars, extVars>>)
    \/ (RemainingStart /\ UNCHANGED <<classifyVars, quoteVars, settingsVars, extVars>>)
    \/ (RemainingRetry /\ UNCHANGED <<classifyVars, quoteVars, settingsVars, extVars>>)
    \/ (RemainingRecord /\ UNCHANGED <<classifyVars, quoteVars, settingsVars, extVars>>)
    \/ (RemainingSave /\ UNCHANGED <<classifyVars, quoteVars, settingsVars, extVars>>)
    \/ (Finalize /\ UNCHANGED <<classifyVars, quoteVars, settingsVars, extVars>>)

SpecBatch == InitBatch /\ [][NextBatch]_vars

----------------------------------------------------------------------------
(* Specification of the classifier: any kW from -MinKw to MaxKw, tenths     *)
(* included, classified by either function, any number of times            *)

InitClassify ==
    /\ kw \in (-5 * KwScale)..(MaxKw * KwScale)
    /\ classifier = "none" /\ tier = "none"
    /\ BatchIdle /\ QuoteIdle /\ SettingsIdle /\ ExtIdle

NextClassify ==
    \/ (ClassifyAnr6 /\ UNCHANGED <<batchVars, quoteVars, settingsVars, extVars>>)
    \/ (ClassifyPerUnit /\ UNCHANGED <<batchVars, quoteVars, settingsVars, extVars>>)

SpecClassify == InitClassify /\ [][NextClassify]_vars

----------------------------------------------------------------------------
(* Specification of quote generation: any sheet of at most MaxRows cells    *)

InitQuote ==
    /\ sheet \in UNION { [1..n -> CellPool] : n \in 0..MaxRows }
    /\ qpc = "start" /\ kW_numeric = <<>> /\ billable = <<>>
    /\ quote_payloads = <<>> /\ saved_files = <<>> /\ manifest = <<>>
    /\ BatchIdle /\ ClassifyIdle /\ SettingsIdle /\ ExtIdle

NextQuote ==
    \/ (MainClean /\ UNCHANGED <<batchVars, classifyVars, settingsVars, extVars>>)
    \/ (MainGenerate /\ UNCHANGED <<batchVars, classifyVars, settingsVars, extVars>>)
    \/ (MainSave /\ UNCHANGED <<batchVars, classifyVars, settingsVars, extVars>>)

SpecQuote == InitQuote /\ [][NextQuote]_vars

----------------------------------------------------------------------------
(* Specification of the settings programs: any document that lacks at most  *)
(* MaxMissing keys, read by the rebuild script or by one getter             *)

InitSettings ==
    /\ settings \in { SettingsFields \ M :
                        M \in { T \in SUBSET SettingsFields : Cardinality(T) <= MaxMissing } }
    /\ spc = "start" /\ outcome = NoOutcome
    /\ BatchIdle /\ ClassifyIdle /\ QuoteIdle /\ ExtIdle

NextSettings ==
    \/ (RebuildLoad /\ UNCHANGED <<batchVars, classifyVars, quoteVars, extVars>>)
    \/ (GetServiceDPrices /\ UNCHANGED <<batchVars, classifyVars, quoteVars, extVars>>)
    \/ (GetOilPricing /\ UNCHANGED <<batchVars, classifyVars, quoteVars, extVars>>)
    \/ (GetCoolantPricing /\ UNCHANGED <<batchVars, classifyVars, quoteVars, extVars>>)
    \/ (GetLaborRates /\ UNCHANGED <<batchVars, classifyVars, quoteVars, extVars>>)
    \/ (GetMarkupRates /\ UNCHANGED <<batchVars, classifyVars, quoteVars, extVars>>)

SpecSettings == InitSettings /\ [][NextSettings]_vars

----------------------------------------------------------------------------
(* Specification of phase 5: any file phase 4 can write, any template of    *)
(* at most MaxTemplateRows rows                                             *)

InitPhase5 ==
    /\ pricing_data \in Phase4Files
    /\ template \in UNION { [1..n -> TemplateCells] : n \in 0..MaxTemplateRows }
    /\ p5pc = "start" /\ pricing_lookup = {}
    /\ column_c = [r \in 1..Len(template) |-> Absent]
    /\ filled_count = 0 /\ not_found_list = <<>> /\ workbook_saved = FALSE
    /\ BatchIdle /\ ClassifyIdle /\ QuoteIdle /\ SettingsIdle /\ LookupIdle
    /\ ServiceDIdle /\ OrderIdle /\ FetchIdle /\ CpqIdle /\ PerUnitIdle

NextPhase5 ==
    \/ (Phase5Load /\ UNCHANGED <<batchVars, classifyVars, quoteVars, settingsVars, lookupVars, serviceDVars, orderVars, fetchVars, cpqVars, perUnitVars>>)
    \/ (Phase5Fill /\ UNCHANGED <<batchVars, classifyVars, quoteVars, settingsVars, lookupVars, serviceDVars, orderVars, fetchVars, cpqVars, perUnitVars>>)
    \/ (Phase5Save /\ UNCHANGED <<batchVars, classifyVars, quoteVars, settingsVars, lookupVars, serviceDVars, orderVars, fetchVars, cpqVars, perUnitVars>>)

SpecPhase5 == InitPhase5 /\ [][NextPhase5]_vars

----------------------------------------------------------------------------
(* Specification of the lookup tables: any settings document, the script    *)
(* run any number of times, the labor rate edited between runs, and         *)
(* build_payload called on the same settings                                *)

InitLookup ==
    /\ settings_file \in SettingsDocuments
    /\ wb = NoWorkbook /\ wb_before = NoWorkbook /\ payload = NoPayload
    /\ BatchIdle /\ ClassifyIdle /\ QuoteIdle /\ SettingsIdle /\ Phase5Idle
    /\ ServiceDIdle /\ OrderIdle /\ FetchIdle /\ CpqIdle /\ PerUnitIdle

NextLookup ==
    \/ (RebuildLookupTables /\ UNCHANGED <<batchVars, classifyVars, quoteVars, settingsVars, phase5Vars, serviceDVars, orderVars, fetchVars, cpqVars, perUnitVars>>)
    \/ (EditLaborRate /\ UNCHANGED <<batchVars, classifyVars, quoteVars, settingsVars, phase5Vars, serviceDVars, orderVars, fetchVars, cpqVars, perUnitVars>>)
    \/ (BuildPayload /\ UNCHANGED <<batchVars, classifyVars, quoteVars, settingsVars, phase5Vars, serviceDVars, orderVars, fetchVars, cpqVars, perUnitVars>>)

SpecLookup == InitLookup /\ [][NextLookup]_vars

----------------------------------------------------------------------------
(* Specification of Service D: any subset of the fee keys held, any         *)
(* selection of fluids, at most MaxUnits generators of any kW, any rate     *)

InitServiceD ==
    /\ d_settings \in SUBSET FluidNames
    /\ d_payload \in { [kws |-> q, laborRate |-> r, serviceDFluids |-> f] :
                         q \in UNION { [1..n -> {8, 150, 2000}] : n \in 1..MaxUnits },
                         r \in LaborRates, f \in SUBSET FluidNames }
    /\ service_d = [NoServiceD EXCEPT !.pc = "start"]
    /\ BatchIdle /\ ClassifyIdle /\ QuoteIdle /\ SettingsIdle /\ Phase5Idle
    /\ LookupIdle /\ OrderIdle /\ FetchIdle /\ CpqIdle /\ PerUnitIdle

NextServiceD ==
    \/ (ReadServiceDPrices /\ UNCHANGED <<batchVars, classifyVars, quoteVars, settingsVars, phase5Vars, lookupVars, orderVars, fetchVars, cpqVars, perUnitVars>>)
    \/ (CalculateServiceD /\ UNCHANGED <<batchVars, classifyVars, quoteVars, settingsVars, phase5Vars, lookupVars, orderVars, fetchVars, cpqVars, perUnitVars>>)
    \/ (PrevailingWageAdjustment /\ UNCHANGED <<batchVars, classifyVars, quoteVars, settingsVars, phase5Vars, lookupVars, orderVars, fetchVars, cpqVars, perUnitVars>>)

SpecServiceD == InitServiceD /\ [][NextServiceD]_vars

----------------------------------------------------------------------------
(* Specification of the processing order: any list of at most MaxGens       *)
(* generators, any final response for each, any other order of the list     *)

InitOrder ==
    /\ \E gens \in GeneratorLists \ {<<>>} :
          /\ outcomes \in { [k \in 1..Len(gens) |-> [gen |-> gens[k], resp |-> r[k]]] :
                              r \in [1..Len(gens) -> Responses] }
          /\ order \in Orders(Len(gens))
    /\ run_given = NoRun /\ run_reordered = NoRun
    /\ BatchIdle /\ ClassifyIdle /\ QuoteIdle /\ SettingsIdle /\ Phase5Idle
    /\ LookupIdle /\ ServiceDIdle /\ FetchIdle /\ CpqIdle /\ PerUnitIdle

NextOrder ==
    \/ (RunGiven /\ UNCHANGED <<batchVars, classifyVars, quoteVars, settingsVars, phase5Vars, lookupVars, serviceDVars, fetchVars, cpqVars, perUnitVars>>)
    \/ (RunReordered /\ UNCHANGED <<batchVars, classifyVars, quoteVars, settingsVars, phase5Vars, lookupVars, serviceDVars, fetchVars, cpqVars, perUnitVars>>)

SpecOrder == InitOrder /\ [][NextOrder]_vars

----------------------------------------------------------------------------
(* Specification of the settings fetch: any answer of the server, fetched   *)
(* by either function                                                       *)

InitFetch ==
    /\ server_answer \in ServerAnswers
    /\ fetched = NotFetched
    /\ BatchIdle /\ ClassifyIdle /\ QuoteIdle /\ SettingsIdle /\ Phase5Idle
    /\ LookupIdle /\ ServiceDIdle /\ OrderIdle /\ CpqIdle /\ PerUnitIdle

NextFetch ==
    \/ (FetchTestHelper /\ UNCHANGED <<batchVars, classifyVars, quoteVars, settingsVars, phase5Vars, lookupVars, serviceDVars, orderVars, cpqVars, perUnitVars>>)
    \/ (FetchProofOfConcept /\ UNCHANGED <<batchVars, classifyVars, quoteVars, settingsVars, phase5Vars, lookupVars, serviceDVars, orderVars, cpqVars, perUnitVars>>)

SpecFetch == InitFetch /\ [][NextFetch]_vars

----------------------------------------------------------------------------
(* Specification of the CPQ submission: any quote files, submitted and then *)
(* retried                                                                  *)

InitCpq ==
    /\ quote_files \in UNION { [1..n -> {"ok", "unreadable", "nogenerators"}] :
                                n \in 0..MaxQuotes }
    /\ cpq_script = "submit"
    /\ cpq_pc = IF Len(quote_files) = 0 THEN "save" ELSE "loop"
    /\ failed_units = <<>> /\ cpq_i = 0 /\ cpq_unit_num = Unbound
    /\ cpq_results = [successful |-> <<>>, failed |-> <<>>, total |-> 0] /\ cpq_log = <<>>
    /\ submission_file = NoCpqFile /\ retry_file = NoCpqFile
    /\ BatchIdle /\ ClassifyIdle /\ QuoteIdle /\ SettingsIdle /\ Phase5Idle
    /\ LookupIdle /\ ServiceDIdle /\ OrderIdle /\ FetchIdle /\ PerUnitIdle

NextCpq ==
    \/ (SubmitStep /\ UNCHANGED <<batchVars, classifyVars, quoteVars, settingsVars, phase5Vars, lookupVars, serviceDVars, orderVars, fetchVars, perUnitVars>>)
    \/ (SubmitSave /\ UNCHANGED <<batchVars, classifyVars, quoteVars, settingsVars, phase5Vars, lookupVars, serviceDVars, orderVars, fetchVars, perUnitVars>>)
    \/ (RetryStart /\ UNCHANGED <<batchVars, classifyVars, quoteVars, settingsVars, phase5Vars, lookupVars, serviceDVars, orderVars, fetchVars, perUnitVars>>)
    \/ (RetryFailedStep /\ UNCHANGED <<batchVars, classifyVars, quoteVars, settingsVars, phase5Vars, lookupVars, serviceDVars, orderVars, fetchVars, perUnitVars>>)
    \/ (RetrySave /\ UNCHANGED <<batchVars, classifyVars, quoteVars, settingsVars, phase5Vars, lookupVars, serviceDVars, orderVars, fetchVars, perUnitVars>>)

SpecCpq == InitCpq /\ [][NextCpq]_vars

----------------------------------------------------------------------------
(* Specification of the per-unit pricing sheet: the calculation run, then   *)
(* the workbook script                                                      *)

InitPerUnit ==
    /\ pu_pc = "loop" /\ pu_idx = 0 /\ pu_results = <<>> /\ csv_file = NoCsv
    /\ df = <<>> /\ total_annual = 0
    /\ BatchIdle /\ ClassifyIdle /\ QuoteIdle /\ SettingsIdle /\ Phase5Idle
    /\ LookupIdle /\ ServiceDIdle /\ OrderIdle /\ FetchIdle /\ CpqIdle

NextPerUnit ==
    \/ (PerUnitStep /\ UNCHANGED <<batchVars, classifyVars, quoteVars, settingsVars, phase5Vars, lookupVars, serviceDVars, orderVars, fetchVars, cpqVars>>)
    \/ (PerUnitSave /\ UNCHANGED <<batchVars, classifyVars, quoteVars, settingsVars, phase5Vars, lookupVars, serviceDVars, orderVars, fetchVars, cpqVars>>)
    \/ (CreateExcel /\ UNCHANGED <<batchVars, classifyVars, quoteVars, settingsVars, phase5Vars, lookupVars, serviceDVars, orderVars, fetchVars, cpqVars>>)

SpecPerUnit == InitPerUnit /\ [][NextPerUnit]_vars

----------------------------------------------------------------------------
(* Claims about the phase 4 pipeline (checked under SpecBatch)              *)

\* a result record is a success with a price or a failure with an error text
WellFormedRecord(r) ==
    \/ (r.success /\ r.annualPrice # Absent /\ r.error = NoError)
    \/ (~r.success /\ r.annualPrice = Absent /\ r.error # NoError)

OneRecordPerGenerator(recs, gens) ==
    /\ Len(recs) = Len(gens)
    /\ \A k \in 1..Len(recs) :
          recs[k].unitNumber = gens[k].unitNumber /\ WellFormedRecord(recs[k])

\* C1: in phase4-calculate-pricing the loop records every generator it has
\* passed, whatever the server did: after k generators results holds k
\* well-formed records in input order, the loop only ends after the last
\* generator, and the file written holds one record per generator.
C1_EveryGeneratorRecorded ==
    script = "pricing" =>
        /\ pc = "loop" => /\ i < Len(generators)
                          /\ OneRecordPerGenerator(results, SubSeq(generators, 1, i))
        /\ pc = "save" => OneRecordPerGenerator(results, generators)
        /\ pc = "exit" => /\ file.written
                          /\ OneRecordPerGenerator(file.generators, generators)

\* a failed generator (here after a raised Timeout) followed by a priced one
C1_Witness ==
    /\ script = "pricing" /\ pc = "save" /\ Len(results) = 2
    /\ ~results[1].success /\ results[1].error = "Timeout"
    /\ results[2].success

\* the delays the claim lists for each script
ClaimedDelays(s) == IF s = "pricing" THEN <<2, 4>> ELSE <<3, 6, 12, 24>>
ClaimedMaxRequests(s) == IF s = "pricing" THEN 3 ELSE 5
ClaimedTimeout(s) == IF s = "pricing" THEN 15 ELSE 20

IsPrefix(a, b) == Len(a) <= Len(b) /\ \A k \in 1..Len(a) : a[k] = b[k]

\* C2: every 429 is followed by a sleep of the claimed, doubling delay
\* (2, 4 / 3, 6, 12, 24), the delay is back at its initial value when a new
\* generator starts, at most 3 / 5 requests are sent per generator, each with
\* the 15 s / 20 s timeout, and a 429 on the last allowed attempt is recorded
\* as the failure 'HTTP 429' with no further request.
C2_BoundedBackoff ==
    /\ (script \in {"pricing", "remaining"} /\ pc = "loop") =>
          /\ Len(requests) < ClaimedMaxRequests(script)
          /\ \A k \in 1..Len(requests) : requests[k] = 429
          /\ Len(sleeps) = Len(requests)
          /\ IsPrefix(sleeps, ClaimedDelays(script))
          /\ requests = <<>> => retry_delay = ClaimedDelays(script)[1]
    /\ last.script # "none" =>
          /\ Len(last.requests) <= ClaimedMaxRequests(last.script)
          /\ Len(last.sleeps) = Len(last.requests) - 1
          /\ IsPrefix(last.sleeps, ClaimedDelays(last.script))
          /\ last.timeout = ClaimedTimeout(last.script)
          /\ last.requests[Len(last.requests)] = 429 =>
                /\ Len(last.requests) = ClaimedMaxRequests(last.script)
                /\ ~results[last.index].success
                /\ results[last.index].error = "HTTP 429"

\* a generator of a complete-remaining run that used all five requests
C2_Witness ==
    /\ last.script = "remaining"
    /\ last.requests = <<429, 429, 429, 429, 429>>
    /\ last.sleeps = <<3, 6, 12, 24>>
    /\ results[last.index].error = "HTTP 429"

\* C3: a generator is recorded as failed by a timeout only after all the
\* allowed attempts have been used.
C3_TimeoutRetried ==
    (last.script # "none" /\ results[last.index].error = "Timeout") =>
        Len(last.requests) = ClaimedMaxRequests(last.script)

PermanentErrors == { s \in Statuses : s >= 400 /\ s < 500 /\ s # 429 }

\* C4 as stated: a generator whose request was answered by a permanent error
\* had exactly one request sent for it and has the failure record 'HTTP <status>'.
C4_ExactlyOneRequest ==
    (last.script # "none" /\ last.requests[Len(last.requests)] \in PermanentErrors) =>
        /\ Len(last.requests) = 1
        /\ ~results[last.index].success
        /\ results[last.index].error = "HTTP " \o ToString(last.requests[1])

\* C4 as amended: no request is ever sent for a generator after a permanent
\* error response (only 429 responses precede a later request, so the
\* permanent error is the generator's last request, and its only one when it
\* answers the first attempt); the generator then has exactly one record, a
\* failure with error 'HTTP <status>', and the loop has moved past it.
C4_PermanentNotRetried ==
    /\ \A k \in 1..Len(requests) : requests[k] \notin PermanentErrors
    /\ last.script # "none" =>
          /\ \A k \in 1..(Len(last.requests) - 1) : last.requests[k] = 429
          /\ last.requests[Len(last.requests)] \in PermanentErrors =>
                /\ Len(results) = last.index
                /\ ~results[last.index].success
                /\ results[last.index].annualPrice = Absent
                /\ results[last.index].unitNumber = last.unitNumber
                /\ results[last.index].error =
                      "HTTP " \o ToString(last.requests[Len(last.requests)])
                /\ i = last.index
                /\ pc = IF i < Len(work) THEN "loop" ELSE "save"

\* a 400 on the first attempt, and the next generator being processed
C4_Witness ==
    /\ last.script = "pricing" /\ last.requests = <<400>>
    /\ results[last.index].error = "HTTP 400"
    /\ pc = "loop" /\ i < Len(work)

\* C5: the annualTotal of the file is the sum of annualPrice over the records
\* with success=true of the same file.
C5_TotalIsSumOfSuccessful ==
    file.written => file.summary.annualTotal = SumSuccessful(file.generators)

\* floor(x * 103 / 100), computed without leaving 32 bits
TimesOnePointOhThree(x) == (x \div 100) * 103 + ((x % 100) * 103) \div 100

RECURSIVE Compound(_, _)
\* year-1 total times 1.03^(n-1), in 1/YearScale cents
Compound(y1, n) == IF n = 1 THEN y1 ELSE TimesOnePointOhThree(Compound(y1, n - 1))

Abs(x) == IF x < 0 THEN -x ELSE x

YearTotal(f, n) ==
    CASE n = 1 -> f.summary.yearlyTotals.year1
      [] n = 2 -> f.summary.yearlyTotals.year2
      [] n = 3 -> f.summary.yearlyTotals.optionYear3
      [] n = 4 -> f.summary.yearlyTotals.optionYear4
      [] n = 5 -> f.summary.yearlyTotals.optionYear5

\* C9: every yearly total of the file is the year-1 total times 1.03^(n-1)
\* within one cent, and the five-year total is the sum of the five.
C9_CompoundEscalation ==
    file.written =>
        /\ \A n \in 1..5 :
              Abs(YearTotal(file, n) - Compound(YearTotal(file, 1), n)) <= YearScale
        /\ file.summary.fiveYearTotal =
              YearTotal(file, 1) + YearTotal(file, 2) + YearTotal(file, 3)
              + YearTotal(file, 4) + YearTotal(file, 5)

----------------------------------------------------------------------------
(* Claims about the classifier (checked under SpecClassify)                 *)

\* the ten tiers with the ranges their labels state, in kW (the last one has
\* no upper end)
LabelledRanges ==
    { [label |-> "2-14", lo |-> 2, hi |-> 14, open |-> FALSE],
      [label |-> "15-30", lo |-> 15, hi |-> 30, open |-> FALSE],
      [label |-> "35-150", lo |-> 35, hi |-> 150, open |-> FALSE],
      [label |-> "151-250", lo |-> 151, hi |-> 250, open |-> FALSE],
      [label |-> "251-400", lo |-> 251, hi |-> 400, open |-> FALSE],
      [label |-> "401-500", lo |-> 401, hi |-> 500, open |-> FALSE],
      [label |-> "501-670", lo |-> 501, hi |-> 670, open |-> FALSE],
      [label |-> "671-1050", lo |-> 671, hi |-> 1050, open |-> FALSE],
      [label |-> "1051-1500", lo |-> 1051, hi |-> 1500, open |-> FALSE],
      [label |-> "1501+", lo |-> 1501, hi |-> 1501, open |-> TRUE] }

InLabelledRange(k, r) ==
    /\ k >= r.lo * KwScale
    /\ (r.open \/ k <= r.hi * KwScale)

\* C6: get_kw_range of generate-anr6-quotes.py returns one of the ten tiers
\* for every kW, and the tier whose labelled range holds the kW when there is
\* one; a later call on the same kW returns the same tier.
C6_OneTierPerKw ==
    classifier = "anr6" =>
        /\ tier \in { r.label : r \in LabelledRanges }
        /\ \A r \in LabelledRanges : InLabelledRange(kw, r) => tier = r.label
        /\ Cardinality({ r \in LabelledRanges : InLabelledRange(kw, r) }) <= 1

\* the upper boundary of a tier, and a value inside another
C6_Witness ==
    /\ classifier = "anr6"
    /\ \/ (kw = 30 * KwScale /\ tier = "15-30")
       \/ (kw = 300 * KwScale /\ tier = "251-400")

\* C7: classifying a kW of 0 or below raises UnclassifiableInput (and so
\* returns no tier, in particular not the smallest one).
C7_NonPositiveRaises ==
    (classifier # "none" /\ kw <= 0) => tier = "UnclassifiableInput"

----------------------------------------------------------------------------
(* Claims about quote generation (checked under SpecQuote)                  *)

\* a row whose cell holds a kW rating above zero
Quotable(cell) == cell.parses /\ cell.value > 0

QuotedRows == { quote_payloads[k].row : k \in 1..Len(quote_payloads) }

\* C8: when main ends, it has not failed, every row with a zero, negative,
\* missing or unparseable kW is left without a quote and every other row has
\* its quote.
C8_BadRowsSkippedRestQuoted ==
    qpc \in {"done", "error"} =>
        /\ qpc = "done"
        /\ QuotedRows = { r \in 1..Len(sheet) : Quotable(sheet[r]) }
        /\ Len(saved_files) = Len(quote_payloads)

----------------------------------------------------------------------------
(* Claims about the settings (checked under SpecSettings)                   *)

RequiredFields ==
    { "laborRate", "mobilizationRate", "oilPrice", "oilMarkup", "coolantPrice",
      "coolantMarkup", "partsMarkup", "serviceA", "serviceB", "serviceC",
      "serviceD", "serviceE" }

\* the required keys an operation asks the document for
RequiredReads(op) ==
    CASE op = "rebuild" -> RequiredFields
      [] op = "get_service_d_prices" -> {"serviceD"}
      [] op = "get_oil_pricing" -> {"oilPrice", "oilMarkup"}
      [] op = "get_coolant_pricing" -> {"coolantPrice", "coolantMarkup"}
      [] op = "get_labor_rates" -> {"laborRate", "mobilizationRate"}
      [] op = "get_markup_rates" -> {"partsMarkup"}
      [] OTHER -> {}

\* C10: an operation that needs a required key the document lacks ends in an
\* error naming a missing key and hands out no value.
C10_MissingFieldAborts ==
    (spc = "done" /\ RequiredReads(outcome.op) \ settings # {}) =>
        /\ outcome.kind = "KeyError"
        /\ outcome.field \in RequiredReads(outcome.op) \ settings
        /\ outcome.values = {}

----------------------------------------------------------------------------
(* Claims about phase 5 (checked under SpecPhase5)                          *)

\* the units of the file's successful records, as the lookup spells them
PricedUnits == { strip_upper(pricing_data[k].unitNumber) :
                   k \in { j \in 1..Len(pricing_data) : pricing_data[j].success } }

PriceOfUnit(u) ==
    pricing_data[CHOOSE k \in 1..Len(pricing_data) :
                    pricing_data[k].success
                      /\ strip_upper(pricing_data[k].unitNumber) = u].annualPrice

RowsWithUnit == { r \in 1..Len(template) : template[r] # NoUnit }

\* what the claim promises of a run that has ended
Phase5Filled ==
    /\ workbook_saved
    /\ \A r \in RowsWithUnit :
          IF strip_upper(template[r]) \in PricedUnits
          THEN column_c[r] = PriceOfUnit(strip_upper(template[r]))
          ELSE column_c[r] = Absent
                 /\ \E k \in 1..Len(not_found_list) : not_found_list[k] = template[r]
    /\ filled_count + Len(not_found_list) = Cardinality(RowsWithUnit)

\* C11: phase 5 accepts every file phase 4 can write, failure records
\* included: it never ends before saving, and once it has ended every row of
\* a priced unit holds its price, every other row with a unit is listed as
\* not found, and filled + not found is the number of rows with a unit
C11_AcceptsFailureRecords ==
    /\ p5pc # "KeyError"
    /\ (p5pc = "done" => Phase5Filled)

\* the same promise for the files that hold no failure record
C11_HoldsWithoutFailures ==
    (\A k \in 1..Len(pricing_data) : pricing_data[k].success)
        => C11_AcceptsFailureRecords

C11_WithoutFailures_Witness ==
    /\ p5pc = "done" /\ filled_count = 1 /\ Len(not_found_list) = 1
    /\ Len(pricing_data) = 2

\* every file the phase 4 scripts write is one of the files phase 5 is
\* started on (checked under SpecBatch)
Phase4FilesCoverBatch == file.written => file.generators \in Phase4Files

----------------------------------------------------------------------------
(* Claims about the lookup tables and payloads (checked under SpecLookup)   *)

\* the rate the sheet was built with: the labor rate its pricing notes carry
RateUsed == wb.laborRate

\* hours, in tenths, at a rate in cents per hour, in units of the sheet
AtRate(hours, rate) == hours * rate * 100

Dollars(cents) == cents * 1000

\* gallons, in tenths, at a unit price in cents and a markup in hundredths
Fluid(gallons, price, markup) == gallons * price * markup

\* C12: for every tier and every labor rate the Service A total is
\* (labor hours + mobilization hours) x labor rate + parts cost, whatever the
\* other settings are; labor 8 h, mobilization 2 h, parts $150 at $180/h
\* give $1,950.00
C12_ServiceATotal ==
    wb.built =>
      \A t \in Tiers :
        LET row == settings_file.serviceA[t]
        IN /\ wb.A[t] = AtRate(row.labor + row.mobilization, RateUsed) + Dollars(row.parts)
           /\ (row.labor = 80 /\ row.mobilization = 20 /\ row.parts = 15000
                 /\ RateUsed = 18000)
                => wb.A[t] = Dollars(195000)

C12_Witness ==
    /\ wb.built /\ RateUsed = 18000
    /\ \E t \in Tiers : settings_file.serviceA[t] =
                          [labor |-> 80, mobilization |-> 20, parts |-> 15000]
    /\ \E t \in Tiers : settings_file.serviceA[t].parts = 0
    /\ settings_file.mobilizationRate # RateUsed

\* C13: for every tier the Service B total is (labor hours + mobilization
\* hours) x labor rate + filter cost + oil gallons x oil unit price x oil
\* markup; 3 h, 1 h, filter $40, 1.5 gallons at $16 x 1.5 and $180/h give
\* $796.00
C13_ServiceBTotal ==
    wb.built =>
      \A t \in Tiers :
        LET row == settings_file.serviceB[t]
        IN /\ wb.B[t] = AtRate(row.labor + row.mobilization, RateUsed)
                          + Dollars(row.filterCost)
                          + Fluid(row.oilGallons, settings_file.oilPrice,
                                  settings_file.oilMarkup)
           /\ (row.labor = 30 /\ row.mobilization = 10 /\ row.filterCost = 4000
                 /\ row.oilGallons = 15 /\ settings_file.oilPrice = 1600
                 /\ settings_file.oilMarkup = 150 /\ RateUsed = 18000)
                => wb.B[t] = Dollars(79600)

C13_Witness ==
    /\ wb.built /\ RateUsed = 18000
    /\ settings_file.oilPrice = 1600 /\ settings_file.oilMarkup = 150
    /\ \E t \in Tiers : settings_file.serviceB[t].oilGallons = 15
    /\ \E t \in Tiers : settings_file.serviceB[t].oilGallons = 120

\* C14: for every tier the Service C total is (labor hours + mobilization
\* hours) x labor rate + coolant gallons x coolant unit price x coolant
\* markup + hose/belt cost
C14_ServiceCTotal ==
    wb.built =>
      \A t \in Tiers :
        LET row == settings_file.serviceC[t]
        IN wb.C[t] = AtRate(row.labor + row.mobilization, RateUsed)
                       + Fluid(row.coolantGallons, settings_file.coolantPrice,
                               settings_file.coolantMarkup)
                       + Dollars(row.hoseBeltCost)

C14_Witness ==
    /\ wb.built /\ RateUsed = 31124
    /\ settings_file.coolantPrice = 2200 /\ settings_file.coolantMarkup = 130
    /\ \E t \in Tiers : settings_file.serviceC[t].hoseBeltCost = 45000
    /\ \E t \in Tiers : settings_file.serviceC[t].hoseBeltCost = 0

\* C15: for every tier the Service E total is (labor hours + mobilization
\* hours) x labor rate + load-bank rental + transformer rental, where one
\* applies, + delivery cost, every component but the rate being the tier's
C15_ServiceETotal ==
    wb.built =>
      \A t \in Tiers :
        LET row == settings_file.serviceE[t]
            transformer == IF row.transformerRental > 0
                           THEN Dollars(row.transformerRental) ELSE 0
        IN wb.E[t] = AtRate(row.labor + row.mobilization, RateUsed)
                       + Dollars(row.loadBankRental) + transformer
                       + Dollars(row.deliveryCost)

C15_Witness ==
    /\ wb.built
    /\ \E t \in Tiers : settings_file.serviceE[t].transformerRental > 0
    /\ \E t \in Tiers : settings_file.serviceE[t].transformerRental = 0

\* what is left of a total once labor hours are paid at the rate used
AfterLabor(total, row) == total - AtRate(row.labor, RateUsed)

\* C17: mobilization is billed at the labor rate: every payload has
\* mobilizationRate = laborRate, with and without an override, and in every
\* total of the sheet the mobilization hours are paid at the rate of the
\* labor hours, whatever mobilizationRate the settings hold
C17_MobilizationAtLaborRate ==
    /\ payload.built => payload.mobilizationRate = payload.laborRate
    /\ wb.built =>
         \A t \in Tiers :
           /\ AfterLabor(wb.A[t], settings_file.serviceA[t])
                = AtRate(settings_file.serviceA[t].mobilization, RateUsed)
                    + Dollars(settings_file.serviceA[t].parts)
           /\ AfterLabor(wb.B[t], settings_file.serviceB[t])
                = AtRate(settings_file.serviceB[t].mobilization, RateUsed)
                    + Dollars(settings_file.serviceB[t].filterCost)
                    + Fluid(settings_file.serviceB[t].oilGallons,
                            settings_file.oilPrice, settings_file.oilMarkup)
           /\ AfterLabor(wb.C[t], settings_file.serviceC[t])
                = AtRate(settings_file.serviceC[t].mobilization, RateUsed)
                    + Fluid(settings_file.serviceC[t].coolantGallons,
                            settings_file.coolantPrice, settings_file.coolantMarkup)
                    + Dollars(settings_file.serviceC[t].hoseBeltCost)
           /\ AfterLabor(wb.E[t], settings_file.serviceE[t])
                = AtRate(settings_file.serviceE[t].mobilization, RateUsed)
                    + Dollars(settings_file.serviceE[t].loadBankRental
                                + settings_file.serviceE[t].transformerRental
                                + settings_file.serviceE[t].deliveryCost)

C17_Witness ==
    /\ payload.override = 33650 /\ payload.laborRate = 33650
    /\ wb.built
    /\ settings_file.mobilizationRate = 20000 /\ RateUsed = 18000

C17_Witness_NoOverride ==
    /\ payload.built /\ payload.override = NoOverride /\ payload.laborRate = 21500
    /\ settings_file.mobilizationRate = 20000

\* C19: for Services A, B, C and E and every tier, a sheet built at a raised
\* labor rate, all other settings as before, holds no total below the total
\* of the sheet it replaced
C19_MonotoneInLaborRate ==
    (wb.built /\ wb_before.built /\ wb.laborRate >= wb_before.laborRate) =>
      \A t \in Tiers :
        /\ wb.A[t] >= wb_before.A[t]
        /\ wb.B[t] >= wb_before.B[t]
        /\ wb.C[t] >= wb_before.C[t]
        /\ wb.E[t] >= wb_before.E[t]

C19_Witness ==
    /\ wb.built /\ wb_before.built
    /\ wb_before.laborRate = 18000 /\ wb.laborRate = 31124
    /\ \E t \in Tiers : wb.B[t] > wb_before.B[t]

----------------------------------------------------------------------------
(* Claims about Service D (checked under SpecServiceD)                      *)

\* the fee charged for a fluid: nothing when the fluid is not selected
FeeCharged(fluid) ==
    IF fluid \in d_payload.serviceDFluids THEN service_d.prices[fluid] ELSE 0

LaboratoryFees == FeeCharged("oil") + FeeCharged("fuel") + FeeCharged("coolant")

C16_Witness_TwoFluids ==
    /\ service_d.pc = "adjusted"
    /\ d_settings = FluidNames /\ d_payload.serviceDFluids = {"oil", "fuel"}
    /\ service_d.per_unit = 8300

----------------------------------------------------------------------------
(* Claims about the processing order (checked under SpecOrder)              *)

\* C18: the grand annual total does not depend on the processing order: the
\* batch loop gives the same total_value, and the finalization the same
\* annual total, for the list as given and for any other order of it
C18_OrderIndependentTotal ==
    (run_given.done /\ run_reordered.done) =>
        /\ run_given.total_value = run_reordered.total_value
        /\ run_given.annual_total = run_reordered.annual_total

C18_Witness ==
    /\ run_given.done /\ run_reordered.done
    /\ Len(outcomes) = 2 /\ order = <<2, 1>>
    /\ outcomes[1].resp.total = 100000 /\ outcomes[1].resp.body = "ok"
    /\ outcomes[2].resp.total = 250000 /\ outcomes[2].resp.body = "ok"
    /\ run_reordered.total_value = 350000

----------------------------------------------------------------------------
(* Claims about the settings fetch (checked under SpecFetch)                *)

\* the server answered 200 with a settings document
AnsweredSettings ==
    server_answer.kind = "response" /\ server_answer.status = 200 /\ server_answer.json

\* what the claim promises of a call that has ended
FetchContract ==
    /\ fetched.kind # "raised"
    /\ AnsweredSettings =>
         (fetched.kind = "settings" /\ fetched.settings = server_answer.body)
    /\ ~AnsweredSettings => fetched.kind = "None"

\* C20: each fetch_calculator_settings returns the settings when the server
\* answers 200, returns None for every failed fetch (non-200 status,
\* connection error, timeout, any other exception), and never raises
C20_FetchNeverRaises == fetched.impl # "none" => FetchContract

\* the same promise for the function of the test helpers alone
C20_TestHelperNeverRaises == fetched.impl = "test-helpers" => FetchContract

C20_TestHelper_Witness ==
    /\ fetched.impl = "test-helpers" /\ fetched.kind = "None"
    /\ server_answer.kind = "raise" /\ server_answer.exception = "Timeout"

----------------------------------------------------------------------------
(* Further claims about the phase 4 pipeline (checked under SpecBatch)      *)

NumberWhere(recs, flag) ==
    Cardinality({ k \in 1..Len(recs) : recs[k].success = flag })

C21_Witness_Finalize ==
    /\ file.written /\ script = "finalize"
    /\ file.summary.successfulCalculations = 2
    /\ file.allCalculationsSuccess

\* the positions of the loaded file whose record is not successful
FailedPositions ==
    { k \in 1..Len(existing_results.generators) :
        ~existing_results.generators[k].success }

\* the number of failed positions up to position k
FailedUpTo(k) == Cardinality({ j \in FailedPositions : j <= k })

\* the generator the loop is at has a failed record in the loaded file
OnlyFailedRequested ==
    \E k \in FailedPositions :
        /\ generators[k] = work[i + 1]
        /\ FailedUpTo(k) = i + 1

\* the list written by the run, against the loaded file and the new results
MergedInPlace ==
    /\ Len(file'.generators) = Len(existing_results.generators)
    /\ \A k \in 1..Len(existing_results.generators) :
          IF existing_results.generators[k].success
          THEN file'.generators[k] = existing_results.generators[k]
          ELSE /\ file'.generators[k] = results[FailedUpTo(k)]
               /\ file'.generators[k].unitNumber = generators[k].unitNumber

\* C22: a phase4-complete-remaining run sends requests only for generators
\* whose existing record is not successful; the merged list has the length
\* and order of the existing list, keeps every successful record at its
\* position and holds at every failed position the new record of the
\* generator at that position
C22_OnlyFailedRedone ==
    [][ /\ (script = "remaining" /\ pc = "loop") => OnlyFailedRequested
        /\ (script = "remaining" /\ pc = "save" /\ pc' = "exit") => MergedInPlace
      ]_vars

\* the loop has redone the one failed generator of a two-record file and
\* the merge is about to run
C22_Witness ==
    /\ script = "remaining" /\ pc = "save"
    /\ Len(existing_results.generators) = 2
    /\ existing_results.generators[1].success
    /\ ~existing_results.generators[2].success
    /\ Len(results) = 1 /\ results[1].success
    /\ results[1].unitNumber = generators[2].unitNumber

\* the list phase4-finalize writes, against the list it loaded
OnlyEightKwReplaced ==
    LET before == file.generators
        after == file'.generators
        held == { k \in 1..Len(before) : before[k].unitNumber = "76 CM 186" }
    IN /\ Len(after) = Len(before)
       /\ \A k \in 1..Len(before) :
             before[k].unitNumber # "76 CM 186" => after[k] = before[k]
       /\ Cardinality({ k \in 1..Len(before) : after[k] # before[k] }) <= 1
       /\ held = {} => after = before
       /\ \A k \in held :
             (\A j \in held : k <= j) =>
                 /\ after[k].unitNumber = "76 CM 186" /\ after[k].kwRating = 8
                 /\ after[k].success /\ after[k].annualPrice = 1158160

C23_Witness_NoSuchUnit ==
    /\ script = "finalize" /\ Len(file.generators) = 2
    /\ \A k \in 1..2 : file.generators[k].unitNumber # "76 CM 186"
    /\ ~file.generators[1].success

----------------------------------------------------------------------------
(* Claims about the CPQ submission (checked under SpecCpq)                  *)

\* the submission loop has been left, by its end or by an exception
SubmissionLoopLeft == cpq_script = "submit" /\ cpq_pc # "loop"

\* C24: after the submission loop every quote file has produced exactly one
\* record, so that successful + failed = total = the number of quote files,
\* and each failed record carries the unit number of the file that failed,
\* also when the file could not be read and when it was the first file
C24_OneRecordPerFile ==
    SubmissionLoopLeft =>
        /\ Len(cpq_log) = Len(quote_files)
        /\ Len(cpq_results.successful) + Len(cpq_results.failed) = Len(quote_files)
        /\ cpq_pc = "exit" =>
             /\ cpq_results.total = Len(quote_files)
             /\ Len(submission_file.successful) + Len(submission_file.failed)
                  = submission_file.total
        /\ \A k \in 1..Len(cpq_log) :
             cpq_log[k].list = "failed" => cpq_log[k].unit = QuoteFileUnit(k)

\* the same claim for runs in which every quote file can be read
C24_HoldsForReadableFiles ==
    (\A k \in 1..Len(quote_files) : quote_files[k] # "unreadable")
        => C24_OneRecordPerFile

C24_ReadableFiles_Witness ==
    /\ cpq_script = "submit" /\ cpq_pc = "exit"
    /\ Len(quote_files) = 2
    /\ \A k \in 1..Len(quote_files) : quote_files[k] # "unreadable"
    /\ Len(cpq_results.failed) = 2

RECURSIVE SleptBetween(_, _, _)
\* seconds slept from pass a up to, not including, pass b
SleptBetween(log, a, b) ==
    IF a >= b THEN 0 ELSE log[a].slept + SleptBetween(log, a + 1, b)

\* passes a < b both sent a request and no pass between them did
ConsecutiveRequests(log, a, b) ==
    /\ a < b /\ log[a].posted /\ log[b].posted
    /\ \A c \in (a + 1)..(b - 1) : ~log[c].posted

\* C25: two consecutive requests of a run are separated by the rate-limit
\* delay of its script (1 s submitting, 5 s retrying), whatever became of the
\* earlier one
C25_RequestsSpacedByDelay ==
    \A a, b \in 1..Len(cpq_log) :
        ConsecutiveRequests(cpq_log, a, b)
            => SleptBetween(cpq_log, a, b) >= rate_limit_delay(cpq_script)

\* the same claim for the request that follows a successful submission
C25_HoldsAfterSuccess ==
    \A a, b \in 1..Len(cpq_log) :
        (ConsecutiveRequests(cpq_log, a, b) /\ cpq_log[a].list = "successful")
            => SleptBetween(cpq_log, a, b) >= rate_limit_delay(cpq_script)

\* the units of the records of a list of results
UnitsOf(records) == { records[k].unit : k \in 1..Len(records) }

\* C26: the retry run takes exactly the units listed under 'failed' in the
\* previous results, each once and in the listed order; every such unit ends
\* in exactly one of the two lists of the retry results, successful + failed
\* = total; the previous results file and the quote files stay as they were
\* and only the retry results file is written
C26_RetryTakesFailedOnce ==
    [][ /\ (cpq_script = "retry" /\ cpq_script' = "retry") =>
              /\ submission_file' = submission_file
              /\ quote_files' = quote_files
        /\ (cpq_script = "retry" /\ cpq_pc = "save" /\ cpq_pc' = "exit") =>
              /\ retry_file'.written
              /\ [k \in 1..Len(cpq_log) |-> cpq_log[k].unit]
                   = [k \in 1..Len(submission_file.failed) |->
                        submission_file.failed[k].unit]
              /\ \A j, k \in 1..Len(cpq_log) :
                   cpq_log[j].unit = cpq_log[k].unit => j = k
              /\ UnitsOf(retry_file'.successful) \cap UnitsOf(retry_file'.failed) = {}
              /\ UnitsOf(retry_file'.successful) \cup UnitsOf(retry_file'.failed)
                   = UnitsOf(submission_file.failed)
              /\ Len(retry_file'.successful) + Len(retry_file'.failed)
                   = retry_file'.total
              /\ retry_file'.total = Len(submission_file.failed)
      ]_vars

\* the previous results list no unit twice under 'failed'
FailedListedOnce ==
    \A j, k \in 1..Len(submission_file.failed) :
        submission_file.failed[j].unit = submission_file.failed[k].unit => j = k

\* the same claim for previous results that list no unit twice
C26_HoldsWhenListedOnce ==
    [][ /\ (cpq_script = "retry" /\ cpq_script' = "retry") =>
              /\ submission_file' = submission_file
              /\ quote_files' = quote_files
        /\ (cpq_script = "retry" /\ cpq_pc = "save" /\ cpq_pc' = "exit"
              /\ FailedListedOnce) =>
              /\ retry_file'.written
              /\ [k \in 1..Len(cpq_log) |-> cpq_log[k].unit]
                   = [k \in 1..Len(submission_file.failed) |->
                        submission_file.failed[k].unit]
              /\ UnitsOf(retry_file'.successful) \cap UnitsOf(retry_file'.failed) = {}
              /\ UnitsOf(retry_file'.successful) \cup UnitsOf(retry_file'.failed)
                   = UnitsOf(submission_file.failed)
              /\ Len(retry_file'.successful) + Len(retry_file'.failed)
                   = retry_file'.total
              /\ retry_file'.total = Len(submission_file.failed)
      ]_vars

C26_ListedOnce_Witness ==
    /\ cpq_script = "retry" /\ cpq_pc = "exit" /\ retry_file.written
    /\ FailedListedOnce /\ Len(submission_file.failed) = 2
    /\ Len(retry_file.successful) = 1 /\ Len(retry_file.failed) = 1

----------------------------------------------------------------------------
(* Further claims about quote generation (checked under SpecQuote)          *)

\* the sheet rows whose cleaned kW is above 0
RowsAboveZero == { r \in 1..Len(kW_numeric) : kW_numeric[r] > 0 }

\* C27: when quote generation has written its output, the units are numbered
\* 1..N in sheet order over exactly the rows with cleaned kW > 0; for every i
\* the payload numbered i, the file quote-unit-<i>.json and the manifest
\* entry with unit_number i describe the same row, whose kW is > 0 and whose
\* kwRange is get_kw_range(kW); total_generators is N
C27_UnitsNumberedInSheetOrder ==
    qpc = "done" =>
        LET N == Cardinality(RowsAboveZero)
            listed == manifest[1].generators
        IN  /\ Len(quote_payloads) = N /\ Len(saved_files) = N
            /\ Len(listed) = N /\ manifest[1].total_generators = N
            /\ { quote_payloads[n].row : n \in 1..Len(quote_payloads) } = RowsAboveZero
            /\ \A m, n \in 1..Len(quote_payloads) :
                 m < n => quote_payloads[m].row < quote_payloads[n].row
            /\ \A n \in 1..N :
                 /\ quote_payloads[n].quoteNumber = n
                 /\ saved_files[n].quote_file = n
                 /\ saved_files[n].payload = quote_payloads[n]
                 /\ listed[n].unit_number = n /\ listed[n].quote_file = n
                 /\ listed[n].row = quote_payloads[n].row
                 /\ listed[n].kw = quote_payloads[n].kw
                 /\ listed[n].kw_range = quote_payloads[n].kwRange
                 /\ quote_payloads[n].kw = kW_numeric[quote_payloads[n].row]
                 /\ quote_payloads[n].kw > 0
                 /\ quote_payloads[n].kwRange = get_kw_range(quote_payloads[n].kw)

\* a sheet whose first row is left out, so that unit 1 is sheet row 2
C27_Witness ==
    /\ qpc = "done" /\ Len(sheet) = 2
    /\ kW_numeric[1] = 0 /\ kW_numeric[2] > 0
    /\ Len(quote_payloads) = 1 /\ quote_payloads[1].row = 2
    /\ manifest[1].total_generators = 1

C27_Witness_TwoUnits ==
    /\ qpc = "done" /\ Len(quote_payloads) = 2
    /\ quote_payloads[1].kwRange # quote_payloads[2].kwRange

----------------------------------------------------------------------------
(* Claims about the per-unit pricing sheet (checked under SpecPerUnit)      *)

\* the rows of the sheet that carry one asset ID
RowsFor(frame, asset) == { k \in 1..Len(frame) : frame[k].assetId = asset }

\* the asset IDs of the generators the calculation run took
AssetsTaken ==
    { generators_data[k].assetId : k \in 1..pu_idx }

\* C28: the per-unit pricing sheet lists each generator exactly once:
\* whichever generators the calculation run priced, no asset ID appears twice
\* once the three 'missing' generators are added, and the grand total counts
\* the totalAnnual of each generator once
C28_EachGeneratorOnce ==
    pu_pc = "excel" =>
        /\ \A k \in 1..Len(df) : Cardinality(RowsFor(df, df[k].assetId)) = 1
        /\ Len(df) = Cardinality({ df[k].assetId : k \in 1..Len(df) })
        /\ \E pick \in [{ df[k].assetId : k \in 1..Len(df) } -> 1..Len(df)] :
             /\ \A a \in DOMAIN pick : df[pick[a]].assetId = a
             /\ total_annual =
                  SumSeq([k \in 1..Len(df) |->
                            IF pick[df[k].assetId] = k THEN df[k].totalAnnual ELSE 0])

\* the calculation run priced none of the three generators that
\* create-per-unit-excel.py adds
MissingNotPriced ==
    \A k \in 1..Len(csv_file.rows), m \in 1..Len(missing_gens) :
        csv_file.rows[k].assetId # missing_gens[m].assetId

\* the same claim for runs that priced none of the three added generators
C28_HoldsWhenMissingNotPriced ==
    MissingNotPriced => C28_EachGeneratorOnce

C28_MissingNotPriced_Witness ==
    /\ pu_pc = "excel" /\ MissingNotPriced
    /\ Len(csv_file.rows) > 0 /\ Len(df) = Len(csv_file.rows) + 3

----------------------------------------------------------------------------
(* Further claims about the kW classifier (checked under SpecClassify)      *)

\* a range label without its ' kW' suffix
WithoutKwSuffix(label) ==
    CASE label = "2-14 kW" -> "2-14"
      [] label = "15-30 kW" -> "15-30"
      [] label = "35-150 kW" -> "35-150"
      [] label = "151-250 kW" -> "151-250"
      [] label = "251-400 kW" -> "251-400"
      [] label = "401-500 kW" -> "401-500"
      [] label = "501-670 kW" -> "501-670"
      [] label = "671-1050 kW" -> "671-1050"
      [] label = "1051-1500 kW" -> "1051-1500"
      [] label = "1501-2050 kW" -> "1501-2050"
      [] label = "2050+ kW" -> "2050+"
      [] OTHER -> label

\* C29: every kW-range table assigns a kW value to the same tier: for any kW
\* get_kw_range of generate-anr6-quotes.py, get_kw_range of
\* create-per-unit-excel.py and the range label of that kW in the table of
\* verify-oil-calculations.py agree apart from the ' kW' suffix
C29_TablesAgree ==
    classifier # "none" =>
        /\ get_kw_range(kw) = WithoutKwSuffix(get_kw_range_per_unit(kw))
        /\ tier \in { get_kw_range(kw), get_kw_range_per_unit(kw) }
        /\ \A g \in test_generators :
             g.kw * KwScale = kw => WithoutKwSuffix(g.range) = get_kw_range(kw)

\* the two functions agree above 14 kW and up to 1500 kW
C29_FunctionsAgreeFrom15To1500 ==
    (classifier # "none" /\ kw > 14 * KwScale /\ kw <= 1500 * KwScale) =>
        get_kw_range(kw) = WithoutKwSuffix(get_kw_range_per_unit(kw))

C29_FunctionsAgree_Witness ==
    /\ classifier = "perunit" /\ kw = 300 * KwScale
    /\ WithoutKwSuffix(tier) = get_kw_range(kw)

====
